---- MODULE Spec2Model ----
(***************************************************************************)
(* Pixelopolis: tile-grid simulation engine.                               *)
(* Grid store (WorldState), power grid (PowerSystem), growth (GrowthSystem),*)
(* economy (EconomySystem), fixed-step scheduler (SimulationSystem),       *)
(* command log (CommandQueue) and brush (BrushTool), as wired together by  *)
(* MainScene.                                                              *)
(***************************************************************************)
EXTENDS Integers, Sequences, FiniteSets, TLC

(***************************************************************************)
(* IEEE-754 double arithmetic.                                             *)
(* JavaScript numbers are doubles.  A non-negative double x is held as the *)
(* integer x * 2^63,       written little-endian in five limbs of 16     *)
(* bits.  Every operation computes the exact result and then rounds it to  *)
(* 53 significant bits, ties to even, as the hardware does.                *)
(***************************************************************************)
Base == 2^16

DZero == <<0, 0, 0, 0, 0>>

Pow2Big(r) ==
    LET k == (r \div 16) + 1
        v == 2^(r % 16)
    IN  <<IF k = 1 THEN v ELSE 0, IF k = 2 THEN v ELSE 0, IF k = 3 THEN v ELSE 0,
          IF k = 4 THEN v ELSE 0, IF k = 5 THEN v ELSE 0>>

RECURSIVE AddLimbs(_, _, _, _)
\* limbs i..5 of a + b, given the carry into limb i
AddLimbs(a, b, i, carry) ==
    IF i > 5 THEN <<>>
    ELSE <<(a[i] + b[i] + carry) % Base>>
            \o AddLimbs(a, b, i + 1, (a[i] + b[i] + carry) \div Base)

BigAdd(a, b) == AddLimbs(a, b, 1, 0)

RECURSIVE SubLimbs(_, _, _, _)
\* limbs i..5 of a - b, given the borrow from limb i
SubLimbs(a, b, i, borrow) ==
    IF i > 5 THEN <<>>
    ELSE <<(a[i] - b[i] - borrow + Base) % Base>>
            \o SubLimbs(a, b, i + 1, IF a[i] - b[i] - borrow < 0 THEN 1 ELSE 0)

\* a - b for a >= b
BigSub(a, b) == SubLimbs(a, b, 1, 0)

RECURSIVE GeqFrom(_, _, _)
GeqFrom(a, b, i) ==
    IF i = 0 THEN TRUE
    ELSE IF a[i] # b[i] THEN a[i] > b[i]
    ELSE GeqFrom(a, b, i - 1)

\* the comparison a >= b
DGeq(a, b) == GeqFrom(a, b, 5)

DLess(a, b) == ~DGeq(a, b)

RECURSIVE MulLimbs(_, _, _, _)
MulLimbs(a, n, i, carry) ==
    IF i > 5 THEN <<>>
    ELSE <<(a[i] * n + carry) % Base>>
            \o MulLimbs(a, n, i + 1, (a[i] * n + carry) \div Base)

\* a * n for a small natural n (n < 2^15)
BigMulSmall(a, n) == MulLimbs(a, n, 1, 0)

RECURSIVE DivLimbs(_, _, _, _)
\* limbs 1..i of floor(a / n), given the remainder left by the limbs above i
DivLimbs(a, n, i, rem) ==
    IF i = 0 THEN <<>>
    ELSE DivLimbs(a, n, i - 1, (rem * Base + a[i]) % n) \o <<(rem * Base + a[i]) \div n>>

RECURSIVE DivRem(_, _, _, _)
DivRem(a, n, i, rem) ==
    IF i = 0 THEN rem ELSE DivRem(a, n, i - 1, (rem * Base + a[i]) % n)

\* floor(a / n) and the remainder, for a small positive n (n < 2^15)
BigDivSmall(a, n) == [quot |-> DivLimbs(a, n, 5, 0), rem |-> DivRem(a, n, 5, 0)]

RECURSIVE BitLenSmall(_)
BitLenSmall(v) == IF v = 0 THEN 0 ELSE 1 + BitLenSmall(v \div 2)

RECURSIVE TopLimb(_, _)
TopLimb(a, i) == IF i = 0 THEN 0 ELSE IF a[i] # 0 THEN i ELSE TopLimb(a, i - 1)

BitLenAt(a, t) == IF t = 0 THEN 0 ELSE 16 * (t - 1) + BitLenSmall(a[t])

BitLen(a) == BitLenAt(a, TopLimb(a, 5))

\* a mod 2^r
LowBits(a, r) ==
    LET k == r \div 16
        m == 2^(r % 16)
    IN  <<IF 1 <= k THEN a[1] ELSE IF 1 = k + 1 THEN a[1] % m ELSE 0,
          IF 2 <= k THEN a[2] ELSE IF 2 = k + 1 THEN a[2] % m ELSE 0,
          IF 3 <= k THEN a[3] ELSE IF 3 = k + 1 THEN a[3] % m ELSE 0,
          IF 4 <= k THEN a[4] ELSE IF 4 = k + 1 THEN a[4] % m ELSE 0,
          IF 5 <= k THEN a[5] ELSE IF 5 = k + 1 THEN a[5] % m ELSE 0>>

\* a with its r low bits, low, rounded away: up iff low is above half of 2^r,
\* or is the half and the kept part is odd (or a fraction lies below a)
RoundLow(a, sticky, r, low) ==
    IF IF low = Pow2Big(r - 1)
       THEN sticky \/ ((a[(r \div 16) + 1] \div (2^(r % 16))) % 2) = 1
       ELSE DGeq(low, Pow2Big(r - 1))
    THEN BigAdd(BigSub(a, low), Pow2Big(r))
    ELSE BigSub(a, low)

RoundTo(a, sticky, len) ==
    IF len <= 53 THEN a ELSE RoundLow(a, sticky, len - 53, LowBits(a, len - 53))

\* round the exact value a (plus a non-zero fraction below it iff sticky)
\* to 53 significant bits, nearest, ties to even
Round53(a, sticky) == RoundTo(a, sticky, BitLen(a))

\* the double nearest to the integer n (exact for the small n used here)
DInt(n) == BigMulSmall(Pow2Big(63), n)

RoundQuot(q) == Round53(q.quot, q.rem # 0)

\* the JavaScript quotient n / d of two small integers, n >= 0, d > 0
DQuot(n, d) == RoundQuot(BigDivSmall(DInt(n), d))

\* the JavaScript sum a + b
DAdd(a, b) == Round53(BigAdd(a, b), FALSE)

\* the JavaScript difference a - b, for a >= b
DSub(a, b) == Round53(BigSub(a, b), FALSE)

\* the JavaScript product n * a of a small integer and a double
DMulInt(n, a) == Round53(BigMulSmall(a, n), FALSE)

(***************************************************************************)
(* Bounds of the model and program constants.                              *)
(***************************************************************************)
Width == 2
Height == 1
MaxObj == Width * Height + 2
MaxStrokes == 2
MaxTime == 300

POWER_PER_PLANT == 200
POWER_RADIUS == 8
MAX_BUILDING_LEVEL == 3
TICK_INTERVAL == 100
ABANDONMENT_TIME == 30
TAX_INTERVAL == 3
STARTING_BALANCE == 1000
maxHistory == 100

TileTypes == {"EMPTY", "ROAD", "RES", "COM", "IND", "POWER_PLANT"}
POWER_CONSUMING_TILES == {"RES", "COM", "IND", "ROAD"}

\* BrushType -> TileType
BRUSH_TO_TILE ==
    [ROAD |-> "ROAD", RES |-> "RES", COM |-> "COM", IND |-> "IND",
     POWER_PLANT |-> "POWER_PLANT", ERASER |-> "EMPTY"]

GROWTH_CHANCE == DQuot(1, 100)
UPGRADE_BASE_CHANCE == DQuot(5, 1000)
HAPPINESS_UPGRADE_MULTIPLIER == 2
BASE_HAPPINESS == DQuot(5, 10)
POWER_HAPPINESS_BONUS == DQuot(2, 10)
SPARE_CAPACITY_THRESHOLD == DQuot(1, 10)
HappyThreshold == DQuot(7, 10)

\* SIMULATION_CONFIG.TICK_INTERVAL / 1000, the tick step in seconds
tickInterval == DQuot(TICK_INTERVAL, 1000)

Pos == (0..(Width - 1)) \X (0..(Height - 1))

\* the order of the nested loops "for y ... for x ..."
ScanOrder == [i \in 1..(Width * Height) |-> <<(i - 1) % Width, (i - 1) \div Width>>]

canHaveBuildings(tileType) == tileType \in {"RES", "COM", "IND"}

\* a tile: its type and a reference to its building object (0: no building)
EmptyTile == [type |-> "EMPTY", building |-> 0]

NewBuilding == [level |-> 0, unpoweredTime |-> DZero]

VARIABLES
    tiles,          \* WorldState.tiles: Pos -> tile
    heap,           \* the BuildingData objects, by reference
    rngCurrent,     \* RNG.current of the singleton rng, <<high 16 bits, low 16 bits>>
    gridState,      \* PowerSystem.gridState
    cityStats,      \* EconomySystem.cityStats
    lastTaxTime,    \* EconomySystem.lastTaxTime
    growthStats,    \* GrowthSystem.cityStats (the object handed to its constructor)
    isRunning,      \* SimulationSystem.isRunning
    tickCount,      \* SimulationSystem.tickCount
    accumulator,    \* SimulationSystem.accumulator
    lastTime,       \* SimulationSystem.lastTime (ms)
    now,            \* the time of the latest frame (ms)
    pc,             \* position inside SimulationSystem.update: "idle" or "loop"
    history,        \* CommandQueue.history
    currentIndex,   \* CommandQueue.currentIndex
    isPainting,     \* BrushTool.isPainting
    paintedTiles,   \* BrushTool.paintedTiles
    currentBatch,   \* BrushTool.currentBatch
    brushType,      \* BrushTool.config.type
    lastTile,       \* MainScene.lastTileX, lastTileY
    strokes,        \* number of strokes started so far
    tickLog,        \* what the latest tick did: engines run, events emitted
    firstTime,      \* the time of the first update that initialised the clock
    runTime,        \* the time (ms) of the frames that update saw with isRunning true
    replica,        \* a second world and growth engine, replayed tick by tick
    strokeStart,    \* the tiles as they were when the latest stroke began
    returned,       \* the latest direct call of a method and what it returned
    snapshot,       \* the tiles of the WorldStateData that serialize() returned last
    seed,           \* WorldState.seed, <<high bits, low 16 bits>>
    storage,        \* the localStorage item under SAVE_CONFIG.STORAGE_KEY
    retired         \* the world of the scene that was shut down, and its tick listeners

worldVars == <<tiles, heap, rngCurrent, gridState, cityStats, lastTaxTime, growthStats>>
schedVars == <<isRunning, tickCount, accumulator, lastTime, now, pc, firstTime, runTime>>
editVars == <<history, currentIndex, isPainting, paintedTiles, currentBatch,
              brushType, lastTile, strokes>>
obsVars == <<strokeStart, returned, snapshot>>
bootVars == <<seed, storage, retired>>
vars == <<worldVars, schedVars, editVars, tickLog, replica, obsVars, bootVars>>

(***************************************************************************)
(* WorldState                                                              *)
(***************************************************************************)
isValidPosition(p) == p[1] >= 0 /\ p[1] < Width /\ p[2] >= 0 /\ p[2] < Height

\* setTile stores the spread copy { ...tile }: a new tile object whose
\* building field refers to the same BuildingData object as the argument
setTile(ts, p, tile) == IF isValidPosition(p) THEN [ts EXCEPT ![p] = tile] ELSE ts

countTiles(ts, type) == Cardinality({p \in Pos : ts[p].type = type})

\* a bounds test that forgets the row
outOfBoundsX(p) == p[1] < 0 \/ p[1] >= Width

\* "x < 0 || x >= this.width || y < 0 || y >= this.height"
outOfBounds(p) == p[1] < 0 \/ p[1] >= Width \/ p[2] < 0 \/ p[2] >= Height

\* "this.tiles[y][x]": indexing a row that does not exist throws a TypeError,
\* a column that does not exist gives undefined
ElementAt(ts, p) ==
    IF p[2] \notin 0..(Height - 1) THEN [kind |-> "throws"]
    ELSE IF p[1] \notin 0..(Width - 1) THEN [kind |-> "undefined"]
    ELSE [kind |-> "tile", tile |-> ts[p]]

\* WorldState.getTile(x, y)
getTile(ts, p) == IF outOfBounds(p) THEN [kind |-> "null"] ELSE ElementAt(ts, p)

\* what WorldState.setTile(x, y, tile) returns
setTileReturns(p) == IF outOfBounds(p) THEN "false" ELSE "true"

(***************************************************************************)
(* RNG.  current is kept as <<current div 2^16, current mod 2^16>>.  next() *)
(* computes (1664525 * current + 1013904223) % 2^32 in doubles: from a     *)
(* current below 2^32 every step is exact; from the seed Date.now(), which *)
(* needs 41 bits, the product and the sum are rounded to 53 bits.          *)
(***************************************************************************)
\* a generator that mixes the clock into its state
RngStepClock(cur) == <<(cur[1] + now) % Base, cur[2]>>

\* the double a * current, for current in limbs; a = 25 * 2^16 + 26125
RngProduct(current, by25) ==
    Round53(BigAdd(<<0, by25[1], by25[2], by25[3], by25[4]>>,
                   BigMulSmall(current, 26125)), FALSE)

\* the double product + c, taken % 2^32; c = 15470 * 2^16 + 62303
RngSum(sum) == <<sum[2], sum[1]>>

RngLimbs(current) ==
    RngSum(Round53(BigAdd(RngProduct(current, BigMulSmall(current, 25)),
                          <<62303, 15470, 0, 0, 0>>), FALSE))

\* "this.current = (a * this.current + c) % m"
RngStep(cur) == RngLimbs(<<cur[2], cur[1] % Base, cur[1] \div Base, 0, 0>>)

\* "return this.current / m", for a current below 2^32
RngValue(cur) ==
    <<0, (cur[2] % 2) * 32768, (cur[2] \div 2) + (cur[1] % 2) * 32768, cur[1] \div 2, 0>>

(***************************************************************************)
(* PowerSystem                                                             *)
(***************************************************************************)
Abs(n) == IF n < 0 THEN -n ELSE n

\* the distance in which a diagonal step counts as one: the range is a square
chebyshevDistance(p, q) ==
    IF Abs(p[1] - q[1]) >= Abs(p[2] - q[2]) THEN Abs(p[1] - q[1]) ELSE Abs(p[2] - q[2])

manhattanDistance(p, q) == Abs(p[1] - q[1]) + Abs(p[2] - q[2])

\* WorldState.getWidth() and getHeight(), for the world whose tiles are ts
getWidth(ts) == Cardinality({p[1] : p \in DOMAIN ts})

getHeight(ts) == Cardinality({p[2] : p \in DOMAIN ts})

\* the order of "for (y < height) for (x < width)"
ScanOf(width, height) ==
    [i \in 1..(width * height) |-> <<(i - 1) % width, (i - 1) \div width>>]

\* the key `${x},${y}` of a tile in poweredTiles
tileKey(p) == ToString(p[1]) \o "," \o ToString(p[2])

\* gridState as the constructor sets it, before its call of recalculate
NoPower == [capacity |-> 0, demand |-> 0, plants |-> <<>>, poweredTiles |-> {}]

findPowerPlants(ts) ==
    SelectSeq(ScanOf(getWidth(ts), getHeight(ts)), LAMBDA p : ts[p].type = "POWER_PLANT")

isWithinPowerRange(plants, p) ==
    \E i \in 1..Len(plants) : manhattanDistance(p, plants[i]) <= POWER_RADIUS

\* "gridState.plants = findPowerPlants(); gridState.capacity = plants.length * 200"
WithPlants(gs, plants) ==
    [gs EXCEPT !.plants = plants, !.capacity = Len(plants) * POWER_PER_PLANT]

\* a recalculation that keeps the powered set and the demand of the last one
keepPowered(gs) == gs

\* "gridState.poweredTiles.clear(); gridState.demand = 0"
clearPowered(gs) == [gs EXCEPT !.poweredTiles = {}, !.demand = 0]

\* every tile is powered, whatever its type
consumesAlways(tileType) == TRUE

\* "POWER_CONSUMING_TILES.includes(tile.type)"
consumesPower(tileType) == tileType \in POWER_CONSUMING_TILES

\* a scan that counts every consuming tile as demand, powered or not
AddDemanded(gs, ts, p) ==
    IF consumesPower(ts[p].type)
    THEN [gs EXCEPT !.poweredTiles = IF isWithinPowerRange(gs.plants, p)
                                     THEN @ \cup {tileKey(p)} ELSE @,
                    !.demand = @ + 1]
    ELSE gs

\* the body of the scan: "poweredTiles.add(key); demand++"
AddPowered(gs, ts, p) ==
    IF consumesPower(ts[p].type) /\ isWithinPowerRange(gs.plants, p)
    THEN [gs EXCEPT !.poweredTiles = @ \cup {tileKey(p)}, !.demand = @ + 1]
    ELSE gs

\* the scan of recalculate over the tiles lo..hi of the order, one after the
\* other: the first half of the range, then the second half on the grid
\* state the first half has left
RECURSIVE PowerScan(_, _, _, _, _)
PowerScan(gs, ts, order, lo, hi) ==
    IF lo > hi THEN gs
    ELSE IF lo = hi THEN AddPowered(gs, ts, order[lo])
    ELSE CHOOSE scanned \in
             {PowerScan(half, ts, order, (lo + hi) \div 2 + 1, hi) :
                 half \in {PowerScan(gs, ts, order, lo, (lo + hi) \div 2)}} : TRUE

\* PowerSystem.recalculate(), on the gridState gs and the tiles ts
recalculate(gs, ts) ==
    PowerScan(clearPowered(WithPlants(gs, findPowerPlants(ts))), ts,
              ScanOf(getWidth(ts), getHeight(ts)), 1, getWidth(ts) * getHeight(ts))

\* new PowerSystem(worldState)
PowerSystemNew(ts) == recalculate(NoPower, ts)

isPowered(gs, p) == tileKey(p) \in gs.poweredTiles

(***************************************************************************)
(* The BuildingData objects.  A tile, and the oldTile/newTile of a paint   *)
(* command, hold a reference; the spread copies of setTile and of the      *)
(* PaintTileCommand constructor copy the reference, not the object.        *)
(***************************************************************************)
RECURSIVE BatchRefs(_, _)
BatchRefs(batch, i) ==
    IF i = 0 THEN {}
    ELSE {batch[i].oldTile.building, batch[i].newTile.building}
            \cup BatchRefs(batch, i - 1)

RECURSIVE HistoryRefs(_, _)
HistoryRefs(hist, i) ==
    IF i = 0 THEN {}
    ELSE BatchRefs(hist[i], Len(hist[i])) \cup HistoryRefs(hist, i - 1)

\* the objects a command, or a tile of the latest snapshot, still refers to
CommandRefs(hist, batch) ==
    HistoryRefs(hist, Len(hist)) \cup BatchRefs(batch, Len(batch))
        \cup {snapshot[p].building : p \in DOMAIN snapshot}

TileRefs(ts) == {ts[p].building : p \in Pos}

\* an object nothing refers to is garbage: it is given back in its initial state
Collect(hp, ts, hist, batch) ==
    LET live == TileRefs(ts) \cup CommandRefs(hist, batch)
    IN  [r \in 1..MaxObj |-> IF r \in live THEN hp[r] ELSE NewBuilding]

FreeRefs(ts, cmdRefs) == (1..MaxObj) \ (TileRefs(ts) \cup cmdRefs)

Min(S) == CHOOSE m \in S : \A n \in S : m <= n

\* every zone tile without a building can be given a fresh object
CanAllocate(ts, cmdRefs) ==
    Cardinality({p \in Pos : canHaveBuildings(ts[p].type) /\ ts[p].building = 0})
        <= Cardinality(FreeRefs(ts, cmdRefs))

(***************************************************************************)
(* GrowthSystem.processGrowth                                              *)
(***************************************************************************)
\* the tick interval taken in milliseconds
deltaTimeMillis == DInt(TICK_INTERVAL)

\* "const deltaTime = SIMULATION_CONFIG.TICK_INTERVAL / 1000"
deltaTime == DQuot(TICK_INTERVAL, 1000)

\* an abandonment test that does not look at the level
abandonsVacant(time, level) == DGeq(time, DInt(ABANDONMENT_TIME))

\* "unpoweredTime >= ABANDONMENT_TIME && level > 0"
abandons(time, level) == DGeq(time, DInt(ABANDONMENT_TIME)) /\ level > 0

\* growth that does not look at the power state
growsUnpowered(powered) == TRUE

\* "if (!isPowered) continue"
mayGrow(powered) == powered

\* an upgrade test that lets the top level through
upgradesAtMax(level) == level <= MAX_BUILDING_LEVEL

\* "else if (tile.building.level < MAX_BUILDING_LEVEL)"
canUpgrade(level) == level < MAX_BUILDING_LEVEL

upgradeChance(happiness) ==
    DMulInt(IF DGeq(happiness, HappyThreshold) THEN HAPPINESS_UPGRADE_MULTIPLIER ELSE 1,
            UPGRADE_BASE_CHANCE)

\* "if (!tile.building) tile.building = { level: 0, unpoweredTime: 0 }";
\* g is the state of the loop
WithBuilding(g, p, cmdRefs) ==
    IF g.tiles[p].building # 0 THEN g
    ELSE [g EXCEPT !.tiles[p].building = Min(FreeRefs(g.tiles, cmdRefs)),
                   !.heap[Min(FreeRefs(g.tiles, cmdRefs))] = NewBuilding]

\* "if (!isPowered) unpoweredTime += deltaTime; else unpoweredTime = 0"
WithTimer(g, p, powered) ==
    [g EXCEPT !.heap[g.tiles[p].building].unpoweredTime =
                    IF powered THEN DZero ELSE DAdd(@, deltaTime)]

\* "if (rng.next() < chance)": the level goes up by one and name is emitted
GrowWith(g, p, drawn, chance, name) ==
    IF DLess(RngValue(drawn), chance) THEN
        [g EXCEPT !.rng = drawn,
                  !.heap[g.tiles[p].building].level = @ + 1,
                  !.changed = Append(@, p),
                  !.events = Append(@, [name |-> name, pos |-> p,
                                        level |-> g.heap[g.tiles[p].building].level + 1])]
    ELSE [g EXCEPT !.rng = drawn]

\* the rest of the loop body, for the building of the tile at p
GrowBuilding(g, p, b, powered, happiness) ==
    IF abandons(b.unpoweredTime, b.level) THEN
        [g EXCEPT !.heap[g.tiles[p].building] =
                        [level |-> b.level - 1, unpoweredTime |-> DZero],
                  !.changed = Append(@, p),
                  !.events = Append(@, [name |-> "building:abandoned", pos |-> p,
                                        level |-> b.level - 1])]
    ELSE IF ~mayGrow(powered) THEN g
    ELSE IF b.level = 0 THEN
        GrowWith(g, p, RngStep(g.rng), GROWTH_CHANCE, "building:spawned")
    ELSE IF canUpgrade(b.level) THEN
        GrowWith(g, p, RngStep(g.rng), upgradeChance(happiness), "building:upgraded")
    ELSE g

\* the loop body with the building and its timer brought up to date
GrowTimed(g, p, powered, happiness) ==
    GrowBuilding(g, p, g.heap[g.tiles[p].building], powered, happiness)

\* the body of the loop for the tile at p
GrowTile(g, p, gs, happiness, cmdRefs) ==
    IF ~canHaveBuildings(g.tiles[p].type) THEN g
    ELSE GrowTimed(WithTimer(WithBuilding(g, p, cmdRefs), p, isPowered(gs, p)),
                   p, isPowered(gs, p), happiness)

RECURSIVE GrowFrom(_, _, _, _, _)
GrowFrom(g, i, gs, happiness, cmdRefs) ==
    IF i > Len(ScanOrder) THEN g
    ELSE GrowFrom(GrowTile(g, ScanOrder[i], gs, happiness, cmdRefs), i + 1,
                  gs, happiness, cmdRefs)

\* an end of processGrowth that notifies in every tick
GrowthDoneAlways(w, g) ==
    [w EXCEPT !.tiles = g.tiles, !.heap = g.heap, !.rng = g.rng,
              !.log.engines = Append(@, "Growth"),
              !.log.events = @ \o g.events
                               \o <<[name |-> "buildings:changed", tiles |-> g.changed]>>]

\* the end of processGrowth: the batch notification, if any tile changed
GrowthDone(w, g) ==
    [w EXCEPT !.tiles = g.tiles, !.heap = g.heap, !.rng = g.rng,
              !.log.engines = Append(@, "Growth"),
              !.log.events = @ \o g.events
                               \o (IF Len(g.changed) > 0
                                   THEN <<[name |-> "buildings:changed", tiles |-> g.changed]>>
                                   ELSE <<>>)]

\* w is the world the tick listeners work on
processGrowth(w, gs, happiness, cmdRefs) ==
    GrowthDone(w, GrowFrom([tiles |-> w.tiles, heap |-> w.heap, rng |-> w.rng,
                            changed |-> <<>>, events |-> <<>>],
                           1, gs, happiness, cmdRefs))

(***************************************************************************)
(* BuildingData and EconomySystem                                          *)
(***************************************************************************)
NoStats == [population |-> 0, jobs |-> 0, shoppers |-> 0]

\* The values cityStats.balance can hold.  A number is an integer here (the
\* starting balance and every income and upkeep are integers); a save that
\* JSON.parse accepted can also leave the field undefined, null or a string,
\* held as the sequence of its characters.
Num(n) == [kind |-> "number", value |-> n, text |-> <<>>]

NaN == [kind |-> "NaN", value |-> 0, text |-> <<>>]

Undefined == [kind |-> "undefined", value |-> 0, text |-> <<>>]

Null == [kind |-> "null", value |-> 0, text |-> <<>>]

Str(chars) == [kind |-> "string", value |-> 0, text |-> chars]

DigitChars == <<"0", "1", "2", "3", "4", "5", "6", "7", "8", "9">>

\* String(n) of a natural number n, as characters
RECURSIVE Digits(_)
Digits(n) == IF n < 10 THEN <<DigitChars[n + 1]>>
             ELSE Append(Digits(n \div 10), DigitChars[(n % 10) + 1])

\* String(n) of an integer n
NumberToString(n) == IF n < 0 THEN <<"-">> \o Digits(-n) ELSE Digits(n)

\* the characters are those of a decimal integer: Number(text) is not NaN
\* (the empty string converts to 0)
IsNumeric(chars) ==
    LET body == IF Len(chars) > 0 /\ chars[1] \in {"-", "+"} THEN Tail(chars) ELSE chars
    IN  \/ chars = <<>>
        \/ /\ body # <<>>
           /\ \A i \in 1..Len(body) : \E d \in 1..10 : body[i] = DigitChars[d]

\* the JavaScript value "a + n" for a number n: addition of numbers (undefined
\* converts to NaN, null to 0), concatenation when a is a string
Plus(a, n) ==
    IF a.kind = "number" THEN Num(a.value + n)
    ELSE IF a.kind = "null" THEN Num(n)
    ELSE IF a.kind = "string" THEN Str(a.text \o NumberToString(n))
    ELSE NaN

\* the global isNaN(a): Number(a) is NaN
isNaN(a) ==
    IF a.kind \in {"NaN", "undefined"} THEN TRUE
    ELSE IF a.kind = "string" THEN ~IsNumeric(a.text)
    ELSE FALSE

\* "if (isNaN(this.cityStats.balance)) this.cityStats.balance = 0"
Guarded(a) == IF isNaN(a) THEN Num(0) ELSE a

BUILDING_STATS ==
    [RES |-> <<[population |-> 10, jobs |-> 0, shoppers |-> 0],
               [population |-> 25, jobs |-> 0, shoppers |-> 0],
               [population |-> 50, jobs |-> 0, shoppers |-> 0]>>,
     COM |-> <<[population |-> 0, jobs |-> 0, shoppers |-> 15],
               [population |-> 0, jobs |-> 0, shoppers |-> 35],
               [population |-> 0, jobs |-> 0, shoppers |-> 70]>>,
     IND |-> <<[population |-> 0, jobs |-> 20, shoppers |-> 0],
               [population |-> 0, jobs |-> 45, shoppers |-> 0],
               [population |-> 0, jobs |-> 90, shoppers |-> 0]>>]

getBuildingStats(tileType, level) ==
    IF canHaveBuildings(tileType) /\ level \in 1..3
    THEN BUILDING_STATS[tileType][level]
    ELSE NoStats

\* the contribution of the tile at p
TileStats(ts, hp, p) ==
    IF canHaveBuildings(ts[p].type) /\ ts[p].building # 0
    THEN getBuildingStats(ts[p].type, hp[ts[p].building].level)
    ELSE NoStats

\* "population += stats.population; jobs += stats.jobs; shoppers += stats.shoppers"
AddStats(sum, here) ==
    [population |-> sum.population + here.population,
     jobs |-> sum.jobs + here.jobs,
     shoppers |-> sum.shoppers + here.shoppers]

RECURSIVE SumStats(_, _, _)
SumStats(ts, hp, i) ==
    IF i = 0 THEN NoStats
    ELSE AddStats(SumStats(ts, hp, i - 1), TileStats(ts, hp, ScanOrder[i]))

DMin(a, b) == IF DGeq(a, b) THEN b ELSE a

calculateHappiness(gs) ==
    LET bonus == /\ gs.capacity > 0
                 /\ gs.demand > 0
                 /\ gs.demand <= gs.capacity
                 /\ DGeq(DQuot(gs.capacity - gs.demand, gs.capacity),
                         SPARE_CAPACITY_THRESHOLD)
        happiness == IF bonus THEN DAdd(BASE_HAPPINESS, POWER_HAPPINESS_BONUS)
                     ELSE BASE_HAPPINESS
    IN  DMin(DInt(1), happiness)

\* the end of calculateStats: the totals are stored
StoreStats(stats, sum, happiness) ==
    [stats EXCEPT !.population = sum.population,
                  !.jobs = sum.jobs,
                  !.shoppers = sum.shoppers,
                  !.happiness = happiness]

calculateStats(stats, ts, hp, gs) ==
    StoreStats(stats, SumStats(ts, hp, Len(ScanOrder)), calculateHappiness(gs))

\* "population * TAX_PER_POPULATION + shoppers * TAX_PER_SHOPPER + jobs * TAX_PER_JOB"
incomeOf(stats) == stats.population * 2 + stats.shoppers * 1 + stats.jobs * 1

\* an upkeep that charges a plant like a road
upkeepFlat(ts) == countTiles(ts, "ROAD") * 1 + countTiles(ts, "POWER_PLANT") * 1

\* "roadCount * UPKEEP_PER_ROAD + plantCount * UPKEEP_PER_PLANT"
upkeepOf(ts) == countTiles(ts, "ROAD") * 1 + countTiles(ts, "POWER_PLANT") * 5

collectTaxes(stats, ts) ==
    [stats EXCEPT !.balance = Guarded(Plus(@, incomeOf(stats) - upkeepOf(ts)))]

\* onTick after calculateStats, at elapsedTime seconds
TaxTick(w, stats, elapsedTime) ==
    IF DGeq(DSub(elapsedTime, w.lastTaxTime), DInt(TAX_INTERVAL)) THEN
        [w EXCEPT !.cityStats = collectTaxes(stats, w.tiles),
                  !.lastTaxTime = elapsedTime,
                  !.log.engines = Append(@, "Economy"),
                  !.log.events = @ \o <<[name |-> "economy:taxes-collected"],
                                        [name |-> "economy:updated"]>>]
    ELSE [w EXCEPT !.cityStats = stats,
                   !.log.engines = Append(@, "Economy"),
                   !.log.events = Append(@, [name |-> "economy:updated"])]

\* an elapsed time read from the clock of the frame
elapsedByClock(n) == DQuot(now, 1000)

\* "const elapsedTime = tickCount * (SIMULATION_CONFIG.TICK_INTERVAL / 1000)"
elapsedTimeAt(n) == DMulInt(n, DQuot(TICK_INTERVAL, 1000))

EconomyOnTick(w, n, gs) ==
    TaxTick(w, calculateStats(w.cityStats, w.tiles, w.heap, gs), elapsedTimeAt(n))

(***************************************************************************)
(* EventBus: the 'simulation:tick' listeners, in the order MainScene.create *)
(* registers them (EconomySystem is constructed before GrowthSystem;       *)
(* PowerSystem registers no listener).  emit calls them in that order.     *)
(***************************************************************************)
TickListeners == <<"Economy", "Growth">>

CallListener(name, w, n, gs, happiness, cmdRefs) ==
    IF name = "Economy" THEN EconomyOnTick(w, n, gs)
    ELSE processGrowth(w, gs, happiness, cmdRefs)

RECURSIVE EmitTick(_, _, _, _, _, _)
EmitTick(w, i, n, gs, happiness, cmdRefs) ==
    IF i > Len(TickListeners) THEN w
    ELSE EmitTick(CallListener(TickListeners[i], w, n, gs, happiness, cmdRefs),
                  i + 1, n, gs, happiness, cmdRefs)

\* A callback is a function object.  "this.onTick.bind(this)" makes a new
\* one for the instance; "this.onTick" is the method itself.
BoundOnTick(system, scene) == [system |-> system, boundTo |-> scene]

MethodOnTick(system) == [system |-> system, boundTo |-> 0]

\* EventBus.off: "index = callbacks.indexOf(callback); if (index > -1) splice(index, 1)"
off(callbacks, callback) ==
    IF \E i \in 1..Len(callbacks) : callbacks[i] = callback
    THEN LET index == CHOOSE i \in 1..Len(callbacks) :
                        /\ callbacks[i] = callback
                        /\ \A j \in 1..(i - 1) : callbacks[j] # callback
         IN  SubSeq(callbacks, 1, index - 1) \o SubSeq(callbacks, index + 1, Len(callbacks))
    ELSE callbacks

\* the 'simulation:tick' callbacks the constructors of a scene register
Registered(scene) == <<BoundOnTick("Economy", scene), BoundOnTick("Growth", scene)>>

\* growthSystem.destroy(); economySystem.destroy(), on the callbacks of the bus
destroySystems(callbacks) ==
    off(off(callbacks, MethodOnTick("Growth")), MethodOnTick("Economy"))

\* no scene has been shut down
NoScene == [listeners |-> <<>>]

\* the world the listeners of the retired scene r work on; the generator and
\* the bus are shared with the running scene
RetiredWorld(r, w) ==
    [tiles |-> r.tiles, heap |-> r.heap, rng |-> w.rng, cityStats |-> r.cityStats,
     lastTaxTime |-> r.lastTaxTime, log |-> w.log]

\* emit, over the listeners of the retired scene: they were registered first
RECURSIVE EmitRetired(_, _, _, _)
EmitRetired(r, w, i, n) ==
    IF i > Len(r.listeners) THEN w
    ELSE EmitRetired(r, CallListener(r.listeners[i].system, w, n, r.gridState,
                                     r.happiness, {}),
                     i + 1, n)

\* the retired scene after its listeners have worked on the world w
RetiredAfter(r, w) ==
    [r EXCEPT !.tiles = w.tiles, !.heap = w.heap, !.cityStats = w.cityStats,
              !.lastTaxTime = w.lastTaxTime]

(***************************************************************************)
(* SimulationSystem                                                        *)
(***************************************************************************)
World == [tiles |-> tiles, heap |-> heap, rng |-> rngCurrent,
          cityStats |-> cityStats, lastTaxTime |-> lastTaxTime,
          log |-> [tick |-> tickCount + 1, engines |-> <<>>, events |-> <<>>]]

\* update never looks at the run flag
NeverPaused == FALSE

\* "if (!this.isRunning) return"
updateReturnsEarly == ~isRunning

\* update(time), up to the while loop; time = now + dt, no later than limit
UpdateWithin(dt, limit) ==
    /\ pc = "idle"
    /\ now + dt <= limit
    /\ now' = now + dt
    /\ runTime' = IF isRunning THEN runTime + dt ELSE runTime
    /\ IF updateReturnsEarly THEN
           UNCHANGED <<accumulator, lastTime, pc, firstTime>>
       ELSE IF lastTime = 0 THEN
           /\ lastTime' = now'
           /\ firstTime' = now'
           /\ UNCHANGED <<accumulator, pc>>
       ELSE
           /\ accumulator' = DAdd(accumulator, DQuot(now' - lastTime, 1000))
           /\ lastTime' = now'
           /\ pc' = "loop"
           /\ UNCHANGED firstTime
    /\ UNCHANGED <<isRunning, tickCount, worldVars, editVars, tickLog, replica, obsVars, bootVars>>

Update(dt) == UpdateWithin(dt, MaxTime)

\* the accumulator is emptied after a tick
DrainAll(acc) == DZero

\* "this.accumulator -= tickInterval"
Decrement(acc) == DSub(acc, tickInterval)

\* the world after the listeners of a tick have run
Ticked(w) ==
    /\ tiles' = w.tiles
    /\ heap' = w.heap
    /\ rngCurrent' = w.rng
    /\ cityStats' = w.cityStats
    /\ lastTaxTime' = w.lastTaxTime
    /\ tickLog' = w.log

\* the world of the retired scene after its listeners have run in this tick
RetiredTicked ==
    EmitRetired(retired, RetiredWorld(retired, World), 1, tickCount + 1)

\* the world the listeners of the running scene start from in this tick
WorldAfterRetired ==
    IF Len(retired.listeners) = 0 THEN World
    ELSE [World EXCEPT !.rng = RetiredTicked.rng, !.log = RetiredTicked.log]

\* one iteration of "while (accumulator >= tickInterval)": tick(), then the decrement
LoopTick ==
    /\ pc = "loop"
    /\ DGeq(accumulator, tickInterval)
    /\ CanAllocate(tiles, CommandRefs(history, currentBatch))
    /\ tickCount' = tickCount + 1
    /\ Ticked(EmitTick(WorldAfterRetired, 1, tickCount + 1, gridState,
                       growthStats.happiness, CommandRefs(history, currentBatch)))
    /\ retired' = IF Len(retired.listeners) = 0 THEN retired
                  ELSE RetiredAfter(retired, RetiredTicked)
    /\ accumulator' = Decrement(accumulator)
    /\ UNCHANGED <<gridState, growthStats, isRunning, lastTime, now, pc, firstTime,
                   runTime, editVars, replica, obsVars, seed, storage>>

\* the while loop ends and update returns
LoopExit ==
    /\ pc = "loop"
    /\ ~DGeq(accumulator, tickInterval)
    /\ pc' = "idle"
    /\ UNCHANGED <<worldVars, isRunning, tickCount, accumulator, lastTime, now,
                   firstTime, runTime, editVars, tickLog, replica, obsVars, bootVars>>

\* 'growth:toggle' -> onGrowthToggle -> toggleRunning
ToggleRunning ==
    /\ pc = "idle"
    /\ isRunning' = ~isRunning
    /\ UNCHANGED <<worldVars, tickCount, accumulator, lastTime, now, pc, firstTime,
                   runTime, editVars, tickLog, replica, obsVars, bootVars>>

(***************************************************************************)
(* PaintTileCommand, BatchPaintCommand, CommandQueue                       *)
(***************************************************************************)
RECURSIVE BatchExecute(_, _, _)
BatchExecute(ts, batch, i) ==
    IF i > Len(batch) THEN ts
    ELSE BatchExecute(setTile(ts, batch[i].position, batch[i].newTile), batch, i + 1)

RECURSIVE BatchUndo(_, _, _)
BatchUndo(ts, batch, i) ==
    IF i = 0 THEN ts
    ELSE BatchUndo(setTile(ts, batch[i].position, batch[i].oldTile), batch, i - 1)

\* a queue that cannot undo its first command
canUndoAfterFirst(index) == index >= 1

\* "return this.currentIndex >= 0"
canUndoAt(index) == index >= 0

\* "return this.currentIndex < this.history.length - 1"
canRedoAt(hist, index) == index < Len(hist) - 1

canUndo == canUndoAt(currentIndex)

canRedo == canRedoAt(history, currentIndex)

\* an execute that keeps the commands after the cursor
KeepsFuture(hist, index) == hist

\* "if (currentIndex < history.length - 1) history = history.slice(0, currentIndex + 1)"
Truncated(hist, index) ==
    IF index < Len(hist) - 1 THEN SubSeq(hist, 1, index + 1) ELSE hist

\* a history without a cap
neverTooLong(hist) == FALSE

\* "if (history.length > maxHistory)"
tooLong(hist) == Len(hist) > maxHistory

\* CommandQueue.execute(command), on the grid ts
QueueExecute(ts, command) ==
    LET kept == Truncated(history, currentIndex)
        pushed == Append(kept, command)
        full == tooLong(pushed)
    IN  [tiles |-> BatchExecute(ts, command, 1),
         history |-> IF full THEN Tail(pushed) ELSE pushed,
         currentIndex |-> IF full THEN currentIndex ELSE currentIndex + 1]

(***************************************************************************)
(* BrushTool and the input handlers of MainScene                           *)
(***************************************************************************)
\* where the pointer can be
PointerTiles == Pos

\* the brushes the player picks from
Brushes == {"ROAD", "RES", "POWER_PLANT"}

\* BrushTool.paint(tilePos) returns true
PaintAccepted(p, painted) ==
    /\ isValidPosition(p)
    /\ p \notin painted
    /\ tiles[p].type # BRUSH_TO_TILE[brushType]

\* the command BrushTool.paint builds: newTile = { ...oldTile, type }
PaintCommand(p) ==
    [position |-> p,
     oldTile |-> tiles[p],
     newTile |-> [tiles[p] EXCEPT !.type = BRUSH_TO_TILE[brushType]]]

\* MainScene.tryPaintAtPointer, for a stroke with the given painted set and batch
TryPaintAtPointer(p, painted, batch) ==
    LET painting == p # lastTile /\ PaintAccepted(p, painted)
    IN  /\ lastTile' = p
        /\ tiles' = IF painting THEN setTile(tiles, p, PaintCommand(p).newTile) ELSE tiles
        /\ currentBatch' = IF painting THEN Append(batch, PaintCommand(p)) ELSE batch
        /\ paintedTiles' = IF painting THEN painted \cup {p} ELSE painted
        /\ gridState' = IF painting THEN recalculate(gridState, tiles') ELSE gridState
        /\ heap' = Collect(heap, tiles', history, currentBatch')

\* pointerdown, left button: startPaint(), then tryPaintAtPointer; at most
\* limit strokes are begun
PointerDownWithin(p, limit) ==
    /\ pc = "idle"
    /\ ~isPainting
    /\ strokes < limit
    /\ strokes' = strokes + 1
    /\ isPainting' = TRUE
    /\ strokeStart' = tiles
    /\ TryPaintAtPointer(p, {}, <<>>)
    /\ UNCHANGED <<rngCurrent, cityStats, lastTaxTime, growthStats, schedVars,
                   history, currentIndex, brushType, tickLog, replica, returned, snapshot, bootVars>>

PointerDown(p) == PointerDownWithin(p, MaxStrokes)

\* pointermove while a stroke is in progress
PointerMove(p) ==
    /\ pc = "idle"
    /\ isPainting
    /\ p # lastTile
    /\ TryPaintAtPointer(p, paintedTiles, currentBatch)
    /\ UNCHANGED <<rngCurrent, cityStats, lastTaxTime, growthStats, schedVars,
                   history, currentIndex, isPainting, brushType, strokes, tickLog, replica, obsVars, bootVars>>

\* pointerup, left button: stopPaint()
PointerUp ==
    /\ pc = "idle"
    /\ isPainting
    /\ isPainting' = FALSE
    /\ IF Len(currentBatch) > 0 THEN
           LET q == QueueExecute(BatchUndo(tiles, currentBatch, Len(currentBatch)),
                                 currentBatch)
           IN  /\ tiles' = q.tiles
               /\ history' = q.history
               /\ currentIndex' = q.currentIndex
       ELSE UNCHANGED <<tiles, history, currentIndex>>
    /\ currentBatch' = <<>>
    /\ paintedTiles' = {}
    /\ heap' = Collect(heap, tiles', history', currentBatch')
    /\ UNCHANGED <<rngCurrent, gridState, cityStats, lastTaxTime, growthStats, schedVars,
                   brushType, lastTile, strokes, tickLog, replica, obsVars, bootVars>>

\* CommandQueue.undo(), on the grid ts and the queue <<hist, index>>
QueueUndo(ts, hist, index) ==
    IF ~canUndoAt(index)
    THEN [value |-> "false", tiles |-> ts, currentIndex |-> index]
    ELSE [value |-> "true",
          tiles |-> BatchUndo(ts, hist[index + 1], Len(hist[index + 1])),
          currentIndex |-> index - 1]

\* CommandQueue.redo(), on the grid ts and the queue <<hist, index>>
QueueRedo(ts, hist, index) ==
    IF ~canRedoAt(hist, index)
    THEN [value |-> "false", tiles |-> ts, currentIndex |-> index]
    ELSE [value |-> "true",
          tiles |-> BatchExecute(ts, hist[index + 2], 1),
          currentIndex |-> index + 1]

\* the rest of the Ctrl+Z and Ctrl+Y handlers, after the queue q has acted
AfterQueue(q) ==
    /\ tiles' = q.tiles
    /\ currentIndex' = q.currentIndex
    /\ gridState' = recalculate(gridState, q.tiles)
    /\ heap' = Collect(heap, q.tiles, history, currentBatch)

\* Ctrl+Z
KeyUndo ==
    /\ pc = "idle"
    /\ canUndo
    /\ AfterQueue(QueueUndo(tiles, history, currentIndex))
    /\ UNCHANGED <<rngCurrent, cityStats, lastTaxTime, growthStats, schedVars, history,
                   isPainting, paintedTiles, currentBatch, brushType, lastTile, strokes,
                   tickLog, replica, obsVars, bootVars>>

\* Ctrl+Y
KeyRedo ==
    /\ pc = "idle"
    /\ canRedo
    /\ AfterQueue(QueueRedo(tiles, history, currentIndex))
    /\ UNCHANGED <<rngCurrent, cityStats, lastTaxTime, growthStats, schedVars, history,
                   isPainting, paintedTiles, currentBatch, brushType, lastTile, strokes,
                   tickLog, replica, obsVars, bootVars>>

\* 'brush:selected' -> setBrushType; the player picks a brush between strokes
SelectBrush(b) ==
    /\ pc = "idle"
    /\ ~isPainting
    /\ b # brushType
    /\ brushType' = b
    /\ UNCHANGED <<worldVars, schedVars, history, currentIndex, isPainting, paintedTiles,
                   currentBatch, lastTile, strokes, tickLog, replica, obsVars, bootVars>>

(***************************************************************************)
(* SaveSystem.  The localStorage item is held by what JSON.parse makes of  *)
(* it: kind "absent" (no item), "unparsable" (JSON.parse throws), "null"   *)
(* (the JSON text null) or "object"; an object lacks the fields named in   *)
(* lacks and holds the world seed, the saved grid and the city statistics. *)
(***************************************************************************)
NoItem == [kind |-> "absent", lacks |-> {}]

\* what load() and importJSON() return when they return null
NullData == [isNull |-> TRUE, lacks |-> {}]

\* SaveSystem.migrate(saveData): "{ ...saveData }"; the spread of null is {}
migrate(item) ==
    IF item.kind = "null"
    THEN [isNull |-> FALSE, lacks |-> {"version", "worldState", "cityStats", "tiles"}]
    ELSE [isNull |-> FALSE, lacks |-> item.lacks, seed |-> item.seed,
          grid |-> item.grid, stats |-> item.stats]

\* SaveSystem.load(): null without an item and when JSON.parse throws
load(item) ==
    IF item.kind \in {"absent", "unparsable"} THEN NullData ELSE migrate(item)

\* SaveSystem.importJSON(jsonString): null when JSON.parse throws, when
\* reading saveData.version throws (the text null), and when version,
\* worldState or cityStats is missing
importJSON(item) ==
    IF item.kind \in {"absent", "unparsable", "null"} THEN NullData
    ELSE IF item.lacks \cap {"version", "worldState", "cityStats"} # {} THEN NullData
    ELSE migrate(item)

(***************************************************************************)
(* MainScene.create without a save: a fresh world                          *)
(***************************************************************************)
\* the seed Date.now() = 1722214647734: the first three draws are below 0.005,
\* the next two are not
Seeds == {<<26278910, 1974>>}

FreshTiles == [p \in Pos |-> EmptyTile]

FreshStats == [balance |-> Num(STARTING_BALANCE), population |-> 0, jobs |-> 0,
               shoppers |-> 0, happiness |-> BASE_HAPPINESS]

InitScheduler ==
    /\ isRunning = TRUE
    /\ tickCount = 0
    /\ accumulator = DZero
    /\ lastTime = 0
    /\ now = 0
    /\ pc = "idle"
    /\ firstTime = 0
    /\ runTime = 0

\* no method has been called directly yet
NoCall == [method |-> "none", value |-> "undefined"]

InitEditor ==
    /\ history = <<>>
    /\ currentIndex = -1
    /\ isPainting = FALSE
    /\ paintedTiles = {}
    /\ currentBatch = <<>>
    /\ brushType = "ROAD"
    /\ lastTile = <<-1, -1>>
    /\ strokes = 0
    /\ strokeStart = <<>>
    /\ returned = NoCall
    /\ snapshot = <<>>

NoTick == [tick |-> 0, engines |-> <<>>, events |-> <<>>]

NoReplica == [tick |-> 0]

Init ==
    /\ tiles = FreshTiles
    /\ heap = [r \in 1..MaxObj |-> NewBuilding]
    /\ rngCurrent \in Seeds
    /\ seed = rngCurrent
    /\ storage = NoItem
    /\ retired = NoScene
    /\ gridState = PowerSystemNew(FreshTiles)
    /\ cityStats = FreshStats
    /\ lastTaxTime = DZero
    /\ growthStats = FreshStats
    /\ InitScheduler
    /\ InitEditor
    /\ tickLog = NoTick
    /\ replica = NoReplica

\* the frame times of the host loop: time advances by one of these
FrameDeltas == {100}

Next ==
    \/ \E dt \in FrameDeltas : Update(dt)
    \/ LoopTick
    \/ LoopExit
    \/ \E p \in PointerTiles : PointerDown(p)
    \/ \E p \in PointerTiles : PointerMove(p)
    \/ PointerUp
    \/ KeyUndo
    \/ KeyRedo
    \/ \E b \in Brushes : SelectBrush(b)

Spec == Init /\ [][Next]_vars

(***************************************************************************)
(* The scheduler alone: frames of several lengths, no editing.             *)
(* SpecSched never pauses; SpecPause also toggles the run flag.            *)
(***************************************************************************)
SchedDeltas == {16, 17, 100, 300}
SchedTime == 1000

NextSched ==
    \/ \E dt \in SchedDeltas : UpdateWithin(dt, SchedTime)
    \/ LoopTick
    \/ LoopExit

SpecSched == Init /\ [][NextSched]_vars

PauseDeltas == {50, 100, 300}
PauseTime == 700

NextPause ==
    \/ \E dt \in PauseDeltas : UpdateWithin(dt, PauseTime)
    \/ LoopTick
    \/ LoopExit
    \/ ToggleRunning

SpecPause == Init /\ [][NextPause]_vars

(***************************************************************************)
(* A resumed game: MainScene.create loads the saved grid (every tile gets  *)
(* its own building object back from the JSON text), seeds the generator   *)
(* from the clock, and restores the saved city statistics.                 *)
(***************************************************************************)
\* a saved tile; level -1 stands for a tile saved without a building field
Saved(type, level, time) == [type |-> type, level |-> level, time |-> time]

\* the saved grid with these tiles at (0,0) and (1,0) and rest elsewhere
SavedGrid(first, second, rest) ==
    [p \in Pos |-> IF p = <<0, 0>> THEN first ELSE IF p = <<1, 0>> THEN second ELSE rest]

IndexOf(p) == p[2] * Width + p[1] + 1

LoadTiles(snap) ==
    [p \in Pos |-> [type |-> snap[p].type,
                    building |-> IF snap[p].level < 0 THEN 0 ELSE IndexOf(p)]]

LoadHeap(snap) ==
    [r \in 1..MaxObj |->
        IF \E p \in Pos : IndexOf(p) = r /\ snap[p].level >= 0
        THEN LET p == CHOOSE q \in Pos : IndexOf(q) = r
             IN  [level |-> snap[p].level, unpoweredTime |-> snap[p].time]
        ELSE NewBuilding]

\* the statistics the saved game held: those of its last tick
LoadStats(snap) ==
    calculateStats(FreshStats, LoadTiles(snap), LoadHeap(snap),
                   PowerSystemNew(LoadTiles(snap)))

InitLoaded(snaps, seeds) ==
    /\ \E snap \in snaps :
        /\ tiles = LoadTiles(snap)
        /\ heap = LoadHeap(snap)
        /\ gridState = PowerSystemNew(LoadTiles(snap))
        /\ cityStats = LoadStats(snap)
        /\ growthStats = LoadStats(snap)
    /\ rngCurrent \in seeds
    /\ seed = rngCurrent
    /\ storage = NoItem
    /\ retired = NoScene
    /\ lastTaxTime = DZero
    /\ InitScheduler
    /\ InitEditor
    /\ tickLog = NoTick

\* unpoweredTime after 298, 299 and 305 unpowered ticks: 0.1 added that many times
Unpowered298 == <<0, 26236, 26214, 58982, 14>>
Unpowered299 == <<0, 13129, 13107, 62259, 14>>
Unpowered305 == <<0, 23, 0, 16384, 15>>

Grass == Saved("EMPTY", -1, DZero)

\* saved games: a top-level house two ticks from abandonment; a shop one
\* tick from abandonment; a powered factory below the top level; a vacant
\* lot that has been without power for longer than the threshold
LoadGrids ==
    {SavedGrid(Saved("RES", 3, Unpowered298), Grass, Grass),
     SavedGrid(Saved("COM", 1, Unpowered299), Grass, Grass),
     SavedGrid(Saved("IND", 2, DZero), Saved("POWER_PLANT", -1, DZero), Grass),
     SavedGrid(Saved("RES", 0, Unpowered305), Grass, Grass)}

InitLoad == InitLoaded(LoadGrids, Seeds) /\ replica = NoReplica

\* the brushes picked in a resumed game (the palette starts on ROAD)
LoadBrushes == {"POWER_PLANT"}

NextLoad ==
    \/ \E dt \in FrameDeltas : Update(dt)
    \/ LoopTick
    \/ LoopExit
    \/ \E p \in PointerTiles : PointerDown(p)
    \/ \E p \in PointerTiles : PointerMove(p)
    \/ PointerUp
    \/ KeyUndo
    \/ KeyRedo
    \/ \E b \in LoadBrushes : SelectBrush(b)

SpecLoad == InitLoad /\ [][NextLoad]_vars

(***************************************************************************)
(* A long unattended run of a resumed game without a power plant.          *)
(***************************************************************************)
LongGrid == SavedGrid(Saved("RES", 3, DZero), Saved("COM", 1, DZero),
                      Saved("IND", 2, DZero))

LongDeltas == {100, 300}
LongTime == 30600

InitLong == InitLoaded({LongGrid}, Seeds) /\ replica = NoReplica

NextLong ==
    \/ \E dt \in LongDeltas : UpdateWithin(dt, LongTime)
    \/ LoopTick
    \/ LoopExit

SpecLong == InitLong /\ [][NextLong]_vars

(***************************************************************************)
(* Two runs of the same saved game with the same seed.  The second run is  *)
(* kept in replica and is advanced tick by tick on its own.                *)
(***************************************************************************)
DetGrids ==
    {SavedGrid(Saved("RES", 0, DZero), Saved("POWER_PLANT", -1, DZero),
               Saved("COM", 1, DZero)),
     SavedGrid(Saved("IND", 2, DZero), Saved("POWER_PLANT", -1, DZero),
               Saved("RES", -1, DZero))}

\* a second seed, Date.now() = 1696522018031: the first draw is below 0.005,
\* the second lies between 0.005 and 0.01, the third is above
DetSeeds == Seeds \cup {<<25886871, 40175>>}

DetDeltas == {100, 200}
DetTime == 600
DetTicks == 5

InitDet ==
    /\ InitLoaded(DetGrids, DetSeeds)
    /\ replica = [tick |-> 0, tiles |-> tiles, heap |-> heap, rng |-> rngCurrent,
                  cityStats |-> cityStats, lastTaxTime |-> lastTaxTime,
                  happiness |-> growthStats.happiness, log |-> NoTick]

\* the second run after the listeners of a tick have run
ReplicaTicked(w) ==
    [replica EXCEPT !.tick = @ + 1, !.tiles = w.tiles, !.heap = w.heap, !.rng = w.rng,
                    !.cityStats = w.cityStats, !.lastTaxTime = w.lastTaxTime,
                    !.log = w.log]

\* one tick of the second run
ReplicaTick ==
    /\ replica.tick < DetTicks
    /\ replica' = ReplicaTicked(
            EmitTick([tiles |-> replica.tiles, heap |-> replica.heap,
                      rng |-> replica.rng, cityStats |-> replica.cityStats,
                      lastTaxTime |-> replica.lastTaxTime,
                      log |-> [tick |-> replica.tick + 1, engines |-> <<>>,
                               events |-> <<>>]],
                     1, replica.tick + 1, PowerSystemNew(replica.tiles),
                     replica.happiness, {}))
    /\ UNCHANGED <<worldVars, schedVars, editVars, tickLog, obsVars, bootVars>>

NextDet ==
    \/ \E dt \in DetDeltas : UpdateWithin(dt, DetTime)
    \/ LoopTick
    \/ LoopExit
    \/ ReplicaTick

SpecDet == InitDet /\ [][NextDet]_vars

(***************************************************************************)
(* Scene creation.  The module has been loaded (the singleton rng holds    *)
(* the clock of that moment), localStorage holds some item or none, and    *)
(* MainScene.create runs; frames follow.                                   *)
(***************************************************************************)
\* economySystem.setCityStats(saveData.cityStats): "{ ...stats }".  The spread
\* of undefined is {}: balance is undefined; population, jobs, shoppers and
\* happiness are undefined until the first tick stores them, and an undefined
\* happiness fails "happiness >= 0.7" as the number 0 does
setCityStats(data) ==
    IF "cityStats" \in data.lacks
    THEN [balance |-> Undefined, population |-> 0, jobs |-> 0, shoppers |-> 0,
          happiness |-> DZero]
    ELSE data.stats

\* "new WorldState(width, height, tileSize)": no seed is passed, so
\* "this.seed = seed ?? Date.now()" takes the clock, and rng.setSeed(this.seed)
WorldStateNew(clock) == seed' = clock /\ rngCurrent' = clock

\* create() ends in a TypeError; constructed tells whether new WorldState ran
CreateThrows(clock, constructed) ==
    /\ pc' = "crashed"
    /\ returned' = [method |-> "create", value |-> "throws"]
    /\ IF constructed THEN WorldStateNew(clock) ELSE UNCHANGED <<seed, rngCurrent>>
    /\ UNCHANGED <<tiles, heap, gridState, cityStats, lastTaxTime, growthStats>>

\* create() with saveData = data, at the given clock
CreateWith(data, clock) ==
    IF ~data.isNull /\ "worldState" \in data.lacks THEN
        CreateThrows(clock, FALSE)
    ELSE IF ~data.isNull /\ "tiles" \in data.lacks THEN
        CreateThrows(clock, TRUE)
    ELSE
        /\ pc' = "idle"
        /\ WorldStateNew(clock)
        /\ tiles' = IF data.isNull THEN FreshTiles ELSE LoadTiles(data.grid)
        /\ heap' = IF data.isNull THEN [r \in 1..MaxObj |-> NewBuilding]
                   ELSE LoadHeap(data.grid)
        /\ gridState' = PowerSystemNew(tiles')
        /\ cityStats' = IF data.isNull THEN FreshStats ELSE setCityStats(data)
        /\ growthStats' = cityStats'
        /\ lastTaxTime' = DZero
        /\ returned' = [method |-> "create",
                        value |-> IF data.isNull THEN "fresh" ELSE "loaded"]

\* MainScene.create()
Create(clock) ==
    /\ pc = "boot"
    /\ CreateWith(load(storage), clock)
    /\ UNCHANGED <<isRunning, tickCount, accumulator, lastTime, now, firstTime,
                   runTime, editVars, tickLog, replica, strokeStart, snapshot,
                   storage, retired>>

\* the clock when the module was loaded, 734 ms before create ran
LoadClock == <<26278910, 1240>>

\* the seed of the saved worlds, Date.now() = 1696522018031
SavedSeed == <<25886871, 40175>>

\* a well-formed save of the grid snap whose balance field holds balance
SaveOf(snap, balance) ==
    [kind |-> "object", lacks |-> {}, seed |-> SavedSeed, grid |-> snap,
     stats |-> [LoadStats(snap) EXCEPT !.balance = balance]]

\* saved grids: a house of level 1 and a road; a shop of level 1 and a
\* power plant; a factory of level 2 and a road
BootGrids ==
    {SavedGrid(Saved("RES", 1, DZero), Saved("ROAD", -1, DZero), Grass),
     SavedGrid(Saved("COM", 1, DZero), Saved("POWER_PLANT", -1, DZero), Grass),
     SavedGrid(Saved("IND", 2, DZero), Saved("ROAD", -1, DZero), Grass)}

\* what the balance field of a save can hold: a number, nothing, null, a
\* string of digits, a string of letters
BootBalances ==
    {Num(STARTING_BALANCE), Undefined, Null, Str(<<"5", "0">>), Str(<<"a">>)}

\* saves that lack a field
LackingSaves ==
    {[SaveOf(snap, Num(STARTING_BALANCE)) EXCEPT !.lacks = lacks] :
        snap \in BootGrids,
        lacks \in {{"worldState", "tiles"}, {"tiles"}, {"cityStats"}, {"version"}}}

BootItems ==
    {NoItem, [kind |-> "unparsable", lacks |-> {}], [kind |-> "null", lacks |-> {}]}
        \cup {SaveOf(snap, balance) : snap \in BootGrids, balance \in BootBalances}
        \cup LackingSaves

InitBoot ==
    /\ tiles = FreshTiles
    /\ heap = [r \in 1..MaxObj |-> NewBuilding]
    /\ rngCurrent = LoadClock
    /\ seed = LoadClock
    /\ storage \in BootItems
    /\ retired = NoScene
    /\ gridState = NoPower
    /\ cityStats = FreshStats
    /\ lastTaxTime = DZero
    /\ growthStats = FreshStats
    /\ isRunning = TRUE
    /\ tickCount = 0
    /\ accumulator = DZero
    /\ lastTime = 0
    /\ now = 0
    /\ pc = "boot"
    /\ firstTime = 0
    /\ runTime = 0
    /\ InitEditor
    /\ tickLog = NoTick
    /\ replica = NoReplica

BootTime == 3200

NextBoot ==
    \/ \E clock \in Seeds : Create(clock)
    \/ \E dt \in FrameDeltas : UpdateWithin(dt, BootTime)
    \/ LoopTick
    \/ LoopExit

SpecBoot == InitBoot /\ [][NextBoot]_vars

(***************************************************************************)
(* Scene restart: shutdown() of the running scene, then create() on the    *)
(* same MainScene object.  The EventBus and the generator are singletons   *)
(* of their modules and outlive the scene.                                 *)
(***************************************************************************)
\* the tiles of worldState.serialize() as JSON.stringify writes them
SnapOf(ts, hp) ==
    [p \in Pos |->
        IF ts[p].building = 0 THEN Saved(ts[p].type, -1, DZero)
        ELSE Saved(ts[p].type, hp[ts[p].building].level,
                   hp[ts[p].building].unpoweredTime)]

\* the item SaveSystem.save(worldState, cityStats) stores
save(ts, hp, stats) ==
    [kind |-> "object", lacks |-> {}, seed |-> seed, grid |-> SnapOf(ts, hp),
     stats |-> stats]

\* MainScene.shutdown(): performSave(), then the destroy() of each system;
\* then create().  One restart is followed.
Restart(clock) ==
    /\ pc = "idle"
    /\ ~isPainting
    /\ Len(retired.listeners) = 0
    /\ storage' = save(tiles, heap, cityStats)
    /\ retired' = [listeners |-> destroySystems(Registered(1)),
                   tiles |-> tiles, heap |-> heap, gridState |-> gridState,
                   cityStats |-> cityStats, lastTaxTime |-> lastTaxTime,
                   happiness |-> growthStats.happiness]
    /\ CreateWith(load(storage'), clock)
    /\ isRunning' = TRUE
    /\ tickCount' = 0
    /\ accumulator' = DZero
    /\ lastTime' = 0
    /\ firstTime' = 0
    /\ runTime' = 0
    /\ history' = <<>>
    /\ currentIndex' = -1
    /\ paintedTiles' = {}
    /\ currentBatch' = <<>>
    /\ brushType' = "ROAD"
    /\ tickLog' = NoTick
    /\ UNCHANGED <<now, isPainting, lastTile, strokes, replica, strokeStart, snapshot>>

\* saved games: a vacant lot next to a plant, a shop one tick from
\* abandonment, a factory below the top level next to a plant
RestartGrids ==
    {SavedGrid(Saved("RES", 0, DZero), Saved("POWER_PLANT", -1, DZero), Grass),
     SavedGrid(Saved("COM", 1, Unpowered299), Grass, Grass),
     SavedGrid(Saved("IND", 2, DZero), Saved("POWER_PLANT", -1, DZero), Grass)}

RestartTime == 600

InitRestart == InitLoaded(RestartGrids, DetSeeds) /\ replica = NoReplica

NextRestart ==
    \/ \E dt \in FrameDeltas : UpdateWithin(dt, RestartTime)
    \/ LoopTick
    \/ LoopExit
    \/ \E clock \in DetSeeds : Restart(clock)

SpecRestart == InitRestart /\ [][NextRestart]_vars

(***************************************************************************)
(* Tax collection.  A resumed game runs for more than two tax intervals;   *)
(* the player pauses the simulation around the first collection and        *)
(* resumes it at any later time.                                           *)
(***************************************************************************)
\* saved grids: a house of level 1 and a road; a shop of level 1 and a plant
TaxGrids ==
    {SavedGrid(Saved("RES", 1, DZero), Saved("ROAD", -1, DZero), Grass),
     SavedGrid(Saved("COM", 1, DZero), Saved("POWER_PLANT", -1, DZero), Grass)}

TaxTime == 6300

\* the times (ms) between which the player pauses
PauseFrom == 2500
PauseUntil == 3300

InitTax == InitLoaded(TaxGrids, Seeds) /\ replica = NoReplica

\* 'growth:toggle': a pause inside the window, a resume at any time
TogglePause ==
    /\ isRunning => (now >= PauseFrom /\ now <= PauseUntil)
    /\ ToggleRunning

NextTax ==
    \/ \E dt \in FrameDeltas : UpdateWithin(dt, TaxTime)
    \/ LoopTick
    \/ LoopExit
    \/ TogglePause

SpecTax == InitTax /\ [][NextTax]_vars

(***************************************************************************)
(* The command log alone: single clicks with the ROAD brush and the        *)
(* eraser, each of which paints a tile, enough of them to fill the         *)
(* history, and a few undos and redos between strokes once the history is  *)
(* nearly full.  No frame passes.                                          *)
(***************************************************************************)
HistStrokes == maxHistory + 2

\* how far back from a full history the player undoes
UndoDepth == 3

HistTiles == {<<0, 0>>, <<1, 0>>}

HistBrushes == {"ROAD", "ERASER"}

\* the history is nearly full and the player is between two strokes
NearlyFull == Len(history) >= maxHistory - 1 /\ ~isPainting

NextHistory ==
    \/ \E p \in HistTiles :
          p # lastTile /\ PaintAccepted(p, {}) /\ PointerDownWithin(p, HistStrokes)
    \/ PointerUp
    \/ (NearlyFull /\ currentIndex >= maxHistory - UndoDepth /\ KeyUndo)
    \/ (NearlyFull /\ KeyRedo)
    \/ \E b \in HistBrushes : SelectBrush(b)

SpecHistory == Init /\ [][NextHistory]_vars

(***************************************************************************)
(* The command log called directly: strokes fill the history, and undo()   *)
(* and redo() are called on the CommandQueue without asking canUndo() or   *)
(* canRedo() first.                                                        *)
(***************************************************************************)
\* a direct call of a CommandQueue method, which gave q
Called(method, q) ==
    /\ tiles' = q.tiles
    /\ currentIndex' = q.currentIndex
    /\ heap' = Collect(heap, q.tiles, history, currentBatch)
    /\ returned' = [method |-> method, value |-> q.value]
    /\ UNCHANGED <<rngCurrent, gridState, cityStats, lastTaxTime, growthStats,
                   schedVars, history, isPainting, paintedTiles, currentBatch,
                   brushType, lastTile, strokes, tickLog, replica, strokeStart, snapshot, bootVars>>

\* commandQueue.undo()
CallUndo == pc = "idle" /\ Called("undo", QueueUndo(tiles, history, currentIndex))

\* commandQueue.redo()
CallRedo == pc = "idle" /\ Called("redo", QueueRedo(tiles, history, currentIndex))

NextQueue ==
    \/ \E p \in PointerTiles : PointerDown(p)
    \/ \E p \in PointerTiles : PointerMove(p)
    \/ PointerUp
    \/ \E b \in Brushes : SelectBrush(b)
    \/ CallUndo
    \/ CallRedo

SpecQueue == Init /\ [][NextQueue]_vars

(***************************************************************************)
(* The grid store called directly: getTile, setTile and setTileType with   *)
(* coordinates inside the grid and one step outside it.                    *)
(***************************************************************************)
StoreCoords == (-1..Width) \X (-1..Height)

\* the tile types the calls use
StoreTypes == {"EMPTY", "ROAD", "RES"}

\* the tiles handed to setTile
StoreTiles == {[type |-> t, building |-> 0] : t \in StoreTypes}

\* WorldState.setTileType(x, y, type) on the tile got: a zone type gets a new
\* building object, any other type loses the building field
TileOfType(got, type, ref) ==
    [got.tile EXCEPT !.type = type,
                     !.building = IF canHaveBuildings(type) THEN ref ELSE 0]

\* what a direct call left behind: the grid ts and the value it returned
Stored(method, ts, value) ==
    /\ tiles' = ts
    /\ heap' = Collect(heap, ts, history, currentBatch)
    /\ returned' = [method |-> method, value |-> value]
    /\ UNCHANGED <<rngCurrent, gridState, cityStats, lastTaxTime, growthStats,
                   schedVars, editVars, tickLog, replica, strokeStart, snapshot, bootVars>>

\* worldState.getTile(x, y)
CallGetTile(p) == Stored("getTile", tiles, getTile(tiles, p).kind)

\* worldState.setTile(x, y, tile)
CallSetTile(p, tile) ==
    Stored("setTile", IF outOfBounds(p) THEN tiles ELSE setTile(tiles, p, tile),
           setTileReturns(p))

\* worldState.setTileType(x, y, type)
CallSetTileType(p, type) ==
    IF getTile(tiles, p).kind # "tile"
    THEN Stored("setTileType", tiles,
                IF getTile(tiles, p).kind = "throws" THEN "throws" ELSE "false")
    ELSE Stored("setTileType",
                setTile(tiles, p, TileOfType(getTile(tiles, p), type,
                                             Min(FreeRefs(tiles, {})))),
                setTileReturns(p))

NextStore ==
    \/ \E p \in StoreCoords : CallGetTile(p)
    \/ \E p \in StoreCoords, tile \in StoreTiles : CallSetTile(p, tile)
    \/ \E p \in StoreCoords, type \in StoreTypes : CallSetTileType(p, type)

SpecStore == Init /\ [][NextStore]_vars

(***************************************************************************)
(* The power grid of a wider world.  A world of PowerWidth x PowerHeight   *)
(* tiles is loaded, its PowerSystem is constructed up to the call of       *)
(* recalculate, and recalculate is then called any number of times.        *)
(***************************************************************************)
PowerWidth == 10
PowerHeight == 2

WidePos == (0..(PowerWidth - 1)) \X (0..(PowerHeight - 1))

FarCorner == <<PowerWidth - 1, PowerHeight - 1>>

\* a world with a plant at each position of plants, a tile of the given type
\* at z and a road at road
WideGrid(plants, z, type, road) ==
    [p \in WidePos |->
        IF p \in plants THEN [type |-> "POWER_PLANT", building |-> 0]
        ELSE IF p = z THEN [type |-> type, building |-> 0]
        ELSE IF p = road THEN [type |-> "ROAD", building |-> 0]
        ELSE EmptyTile]

WideGrids ==
    {WideGrid(plants, z, type, road) :
        plants \in {near \cup far : near \in {{}} \cup {{a} : a \in WidePos},
                                     far \in {{}, {FarCorner}}},
        z \in WidePos, type \in TileTypes, road \in {<<0, 0>>, FarCorner}}

InitPower ==
    /\ tiles \in WideGrids
    /\ heap = [r \in 1..MaxObj |-> NewBuilding]
    /\ rngCurrent \in Seeds
    /\ seed = rngCurrent
    /\ storage = NoItem
    /\ retired = NoScene
    /\ gridState = NoPower
    /\ cityStats = FreshStats
    /\ lastTaxTime = DZero
    /\ growthStats = FreshStats
    /\ InitScheduler
    /\ InitEditor
    /\ tickLog = NoTick
    /\ replica = NoReplica

\* a call of powerSystem.recalculate()
Recalculate ==
    /\ gridState' = recalculate(gridState, tiles)
    /\ returned' = [method |-> "recalculate", value |-> "undefined"]
    /\ UNCHANGED <<tiles, heap, rngCurrent, cityStats, lastTaxTime, growthStats,
                   schedVars, editVars, tickLog, replica, strokeStart, snapshot, bootVars>>

NextPower == Recalculate

SpecPower == InitPower /\ [][NextPower]_vars

(***************************************************************************)
(* Snapshots.  serialize() is called on the running world, the holder of   *)
(* the data it returned writes to a building of that data, and             *)
(* loadFromData is called with the data.                                   *)
(***************************************************************************)
\* "this.tiles.map((row) => row.map((tile) => ({ ...tile })))": every tile
\* object is copied, and the copy refers to the same BuildingData object
copyTiles(ts) == [p \in DOMAIN ts |-> [type |-> ts[p].type, building |-> ts[p].building]]

\* the tiles of WorldState.toJSON()
toJSON(ts) == copyTiles(ts)

\* the tiles after WorldState.loadFromData(data), data.tiles being ts
loadFromData(ts) == copyTiles(ts)

\* worldState.serialize(), once
Serialize ==
    /\ pc = "idle"
    /\ snapshot = <<>>
    /\ snapshot' = toJSON(tiles)
    /\ returned' = [method |-> "serialize", value |-> "data"]
    /\ UNCHANGED <<worldVars, schedVars, editVars, tickLog, replica, strokeStart, bootVars>>

\* worldState.loadFromData(data) with the data serialize() returned
LoadFromData ==
    /\ pc = "idle"
    /\ ~isPainting
    /\ snapshot # <<>>
    /\ tiles' = loadFromData(snapshot)
    /\ heap' = Collect(heap, tiles', history, currentBatch)
    /\ returned' = [method |-> "loadFromData", value |-> "undefined"]
    /\ UNCHANGED <<rngCurrent, gridState, cityStats, lastTaxTime, growthStats, schedVars,
                   editVars, tickLog, replica, strokeStart, snapshot, bootVars>>

\* the holder of the data writes "data.tiles[y][x].building.level = level"
EditData(p, level) ==
    /\ pc = "idle"
    /\ snapshot # <<>>
    /\ snapshot[p].building # 0
    /\ heap[snapshot[p].building].level # level
    /\ heap' = [heap EXCEPT ![snapshot[p].building].level = level]
    /\ returned' = [method |-> "edit", value |-> "undefined"]
    /\ UNCHANGED <<tiles, rngCurrent, gridState, cityStats, lastTaxTime, growthStats,
                   schedVars, editVars, tickLog, replica, strokeStart, snapshot, bootVars>>

\* the brushes of the snapshot runs (the palette starts on ROAD)
SnapBrushes == {"RES"}

NextSnap ==
    \/ \E dt \in FrameDeltas : Update(dt)
    \/ LoopTick
    \/ LoopExit
    \/ \E p \in PointerTiles : PointerDown(p)
    \/ \E p \in PointerTiles : PointerMove(p)
    \/ PointerUp
    \/ \E b \in SnapBrushes : SelectBrush(b)
    \/ Serialize
    \/ LoadFromData
    \/ \E p \in Pos, level \in 0..MAX_BUILDING_LEVEL : EditData(p, level)

SpecSnap == Init /\ [][NextSnap]_vars

(***************************************************************************)
(* Growth rules                                                            *)
(***************************************************************************)
\* the level of the tile at p; a zone tile that has no building object yet
\* is a vacant lot, level 0
LevelOf(ts, hp, p) == IF ts[p].building = 0 THEN 0 ELSE hp[ts[p].building].level

\* the growth notifications of the last tick that are about the tile at p
EventsAt(log, p) ==
    SelectSeq(log.events,
              LAMBDA e : e.name \in {"building:abandoned", "building:spawned",
                                     "building:upgraded"} /\ e.pos = p)

\* the number of ticks ABANDONMENT_TIME stands for
AbandonTicks == (ABANDONMENT_TIME * 1000) \div TICK_INTERVAL

\* C1: in every reachable state, whatever ticks, strokes, undos and redos led
\* to it, the building level of every zone tile is an integer from 0 to 3.
C1_LevelInRange ==
    \A p \in Pos :
        (canHaveBuildings(tiles[p].type) /\ tiles[p].building # 0) =>
            heap[tiles[p].building].level \in 0..MAX_BUILDING_LEVEL

\* a tick has run over a powered zone tile that was already at the top level
C1_Witness ==
    /\ tickLog.tick >= 1
    /\ \E p \in Pos :
        /\ canHaveBuildings(tiles[p].type)
        /\ LevelOf(tiles, heap, p) = MAX_BUILDING_LEVEL
        /\ isPowered(gridState, p)
        /\ EventsAt(tickLog, p) = <<>>

\* C2: in every reachable state a tile holds a building record if and only
\* if its type is one of the three zone types.
C2_BuildingIffZone ==
    \A p \in Pos : (tiles[p].building # 0) <=> canHaveBuildings(tiles[p].type)

\* C3: a zone tile of level L >= 1 that was powered when the run began and has
\* been unpowered since keeps level L for 299 ticks; after the 300th tick its
\* level is L - 1, its timer is 0 and that tick emitted exactly one
\* 'building:abandoned' for it, carrying L - 1; it then keeps L - 1, and no
\* other tick before the 600th emits an abandonment for it.
C3_AbandonAtThreshold ==
    \A p \in Pos :
        LongGrid[p].level >= 1 =>
            LET b == heap[tiles[p].building]
                L == LongGrid[p].level
                emitted == EventsAt(tickLog, p)
            IN  /\ tickCount < AbandonTicks => b.level = L /\ emitted = <<>>
                /\ tickCount = AbandonTicks =>
                        /\ b.level = L - 1
                        /\ b.unpoweredTime = DZero
                        /\ emitted = <<[name |-> "building:abandoned", pos |-> p,
                                        level |-> L - 1]>>
                /\ (tickCount > AbandonTicks /\ tickCount < 2 * AbandonTicks) =>
                        b.level = L - 1 /\ emitted = <<>>

\* the 300th tick has just run over the unpowered top-level house
C3_Witness ==
    /\ tickCount = AbandonTicks
    /\ tickLog.tick = AbandonTicks
    /\ LevelOf(tiles, heap, <<0, 0>>) = LongGrid[<<0, 0>>].level - 1

\* C4: in a tick, the level of a zone tile goes up only if the power system
\* reports the tile powered, and then by exactly 1 and never from level 3;
\* and a tile the power system reports powered does not lose a level.
C4_GrowthNeedsPower ==
    [][tickCount' # tickCount =>
        \A p \in Pos :
            canHaveBuildings(tiles[p].type) =>
                LET before == LevelOf(tiles, heap, p)
                    after == LevelOf(tiles', heap', p)
                IN  /\ after > before =>
                            /\ isPowered(gridState, p)
                            /\ after = before + 1
                            /\ before < MAX_BUILDING_LEVEL
                    /\ isPowered(gridState, p) => after >= before]_vars

\* the last tick raised a powered tile to the top level
C4_Witness ==
    \E p \in Pos :
        /\ isPowered(gridState, p)
        /\ EventsAt(tickLog, p) = <<[name |-> "building:upgraded", pos |-> p,
                                     level |-> MAX_BUILDING_LEVEL]>>

C6_UniformStep ==
    [][/\ tickCount' # tickCount =>
            /\ tickCount' = tickCount + 1
            /\ DGeq(accumulator, tickInterval)
            /\ accumulator' = DSub(accumulator, tickInterval)
       /\ pc' = "idle" => DLess(accumulator', tickInterval)]_vars

\* update has returned after firing ticks and a part of an interval is left over
C6_Witness == pc = "idle" /\ tickCount >= 2 /\ accumulator # DZero

\* C7: without a pause, after an update at time t the tick count is
\* floor((t - t0) / 100 ms), t0 being the time of the first update.
C7_NoTimeSkipped ==
    (pc = "idle" /\ firstTime > 0) =>
        tickCount = (lastTime - firstTime) \div TICK_INTERVAL

\* C8: the tick count grows only by time that elapsed while the run flag was
\* true: the ticks fired never stand for more time than the frames that
\* update saw while running.
C8_PausedTimeDiscarded == tickCount * TICK_INTERVAL <= runTime

\* C9: a tick fires only while the run flag is true, and while the flag is
\* false no step changes the tick count or the accumulator.
C9_RunFlagGates ==
    [][/\ tickCount' # tickCount => isRunning /\ isRunning'
       /\ ~isRunning => tickCount' = tickCount /\ accumulator' = accumulator]_vars

\* a frame arrived while the scheduler was paused, after ticks had fired
C9_Witness == ~isRunning /\ tickCount > 0 /\ now > lastTime /\ pc = "idle"

\* C10: in every tick the engines run in the order Power, Growth, Economy.
C10_EngineOrder ==
    tickLog.tick > 0 => tickLog.engines = <<"Power", "Growth", "Economy">>

(***************************************************************************)
(* Power coverage                                                          *)
(***************************************************************************)
\* some POWER_PLANT tile of the grid lies within the radius of p
PlantInRange(ts, p) ==
    \E q \in DOMAIN ts :
        ts[q].type = "POWER_PLANT" /\ manhattanDistance(p, q) <= POWER_RADIUS

\* C11: after recalculate(), a tile is powered if and only if it is of a
\* power-consuming type (ROAD, RES, COM, IND) and a POWER_PLANT tile lies at
\* Manhattan distance 8 or less; EMPTY and POWER_PLANT tiles are never powered.
C11_ConsumersPoweredIffInRange ==
    returned.method = "recalculate" =>
        \A p \in DOMAIN tiles :
            isPowered(gridState, p) <=>
                (tiles[p].type \in {"ROAD", "RES", "COM", "IND"} /\ PlantInRange(tiles, p))

\* recalculate() has run on a grid with one plant; a consuming tile within the
\* radius is powered and a consuming tile beyond it is not
C11_Witness ==
    /\ returned.method = "recalculate"
    /\ gridState.capacity = POWER_PER_PLANT
    /\ \E p, q \in DOMAIN tiles :
        /\ tiles[p].type = "ROAD" /\ PlantInRange(tiles, p) /\ isPowered(gridState, p)
        /\ tiles[q].type \in {"RES", "COM", "IND"}
        /\ ~PlantInRange(tiles, q) /\ ~isPowered(gridState, q)

\* C11 as the specification words it: after recalculate(), every in-bounds
\* tile is powered if and only if a POWER_PLANT tile lies at distance 8 or less
C11_PoweredIffInRange ==
    returned.method = "recalculate" =>
        \A p \in DOMAIN tiles : isPowered(gridState, p) <=> PlantInRange(tiles, p)

\* C13: a call of recalculate() that directly follows another call of it, with
\* no write to the grid in between, leaves capacity, demand, plant positions
\* and the powered set as the first call computed them.
C13_RecalculateIdempotent ==
    [][(returned.method = "recalculate" /\ Recalculate) => gridState' = gridState]_vars

\* recalculate() has computed a grid state with two plants and powered tiles,
\* from which it is called again
C13_Witness ==
    /\ returned.method = "recalculate"
    /\ Len(gridState.plants) = 2
    /\ gridState.demand >= 1
    /\ ENABLED Recalculate

UndoRedo(q) == QueueRedo(q.tiles, history, q.currentIndex)

OneMoreEntry(entry) ==
    IF currentIndex + 2 > maxHistory
    THEN Tail(Append(SubSeq(history, 1, currentIndex + 1), entry))
    ELSE Append(SubSeq(history, 1, currentIndex + 1), entry)

\* C15: the step that ends a stroke adds exactly one history entry holding all
\* the tiles the stroke painted (none when it painted no tile), and one undo()
\* after it gives every tile the stroke painted the type it had when the
\* stroke began.
C15_StrokeAtomic ==
    [][(isPainting /\ ~isPainting') =>
          /\ IF currentBatch = <<>>
             THEN history' = history /\ currentIndex' = currentIndex
             ELSE history' = OneMoreEntry(currentBatch)
          /\ \A p \in paintedTiles :
                QueueUndo(tiles', history', currentIndex').tiles[p].type
                    = strokeStart[p].type]_vars

\* the step in which stopPaint hands the batch of the stroke to execute
ExecuteStep == isPainting /\ ~isPainting' /\ currentBatch # <<>>

\* C16: directly after execute(cmd), canRedo() is false and the history is the
\* previous history up to the previous cursor followed by cmd, less its oldest
\* entry when that makes more than 100 entries.
C16_ExecuteDropsFuture ==
    [][ExecuteStep =>
          /\ ~(currentIndex' < Len(history') - 1)
          /\ history' = OneMoreEntry(currentBatch)]_vars

\* more strokes than the history can hold have been committed and the history
\* is shorter than its cap: an execute after an undo has cut the redo branch
C16_Witness ==
    /\ ~isPainting
    /\ strokes > maxHistory
    /\ Len(history) < maxHistory
    /\ currentIndex = Len(history) - 1

\* C16 as the specification words it: after execute(cmd) the history is the
\* previous history up to the previous cursor followed by cmd
C16_ExecuteAppends ==
    [][ExecuteStep =>
          /\ ~(currentIndex' < Len(history') - 1)
          /\ history' = Append(SubSeq(history, 1, currentIndex + 1), currentBatch)]_vars

\* the bounds of the history and of its cursor
HistoryInBounds(hist, index) ==
    Len(hist) <= 100 /\ -1 <= index /\ index <= Len(hist) - 1

\* C17: the history never holds more than 100 commands and the cursor stays
\* between -1 and the last entry; an execute whose append would make 101
\* entries drops the oldest one, and after every execute the cursor is on the
\* command just executed.
C17_HistoryBounded ==
    [][/\ HistoryInBounds(history, currentIndex)
       /\ HistoryInBounds(history', currentIndex')
       /\ ExecuteStep =>
            /\ history'[currentIndex' + 1] = currentBatch
            /\ currentIndex' = Len(history') - 1
            /\ currentIndex = 99 =>
                  /\ Len(history') = 100
                  /\ \A i \in 1..99 : history'[i] = history[i + 1]]_vars

\* the history is full, the cursor is on its last entry, and the two oldest
\* commands, painted on the empty grid, have been dropped
C17_Witness ==
    /\ ~isPainting
    /\ Len(history) = maxHistory
    /\ currentIndex = maxHistory - 1
    /\ history[1][1].oldTile.type = "ROAD"

\* C18: undo() called with the cursor before the first entry, and redo()
\* called with the cursor on the last entry, return false and leave history,
\* cursor and grid as they were; any other call returns true, applies the
\* inverse (undo) or the forward operation (redo) of exactly one command, the
\* one at the cursor or the one after it, and moves the cursor by one.
C18_UndoRedoAtBoundary ==
    [][/\ CallUndo =>
            IF currentIndex = -1
            THEN /\ returned'.value = "false"
                 /\ <<tiles, history, currentIndex>>' = <<tiles, history, currentIndex>>
            ELSE /\ returned'.value = "true"
                 /\ tiles' = BatchUndo(tiles, history[currentIndex + 1],
                                       Len(history[currentIndex + 1]))
                 /\ currentIndex' = currentIndex - 1
                 /\ history' = history
       /\ CallRedo =>
            IF currentIndex = Len(history) - 1
            THEN /\ returned'.value = "false"
                 /\ <<tiles, history, currentIndex>>' = <<tiles, history, currentIndex>>
            ELSE /\ returned'.value = "true"
                 /\ tiles' = BatchExecute(tiles, history[currentIndex + 2], 1)
                 /\ currentIndex' = currentIndex + 1
                 /\ history' = history]_vars

\* undo() has just returned false on a history of two strokes, all undone
C18_Witness ==
    /\ returned = [method |-> "undo", value |-> "false"]
    /\ Len(history) = 2
    /\ currentIndex = -1

\* the step writes a tile, and it is no tick
TileWritten == tickCount' = tickCount /\ \E p \in Pos : tiles'[p] # tiles[p]

OutsideGrid(p) == ~(p[1] \in 0..(Width - 1) /\ p[2] \in 0..(Height - 1))

\* C20: called with coordinates outside the grid, getTile returns null, setTile
\* and setTileType return false, none of them throws, and no tile of the grid
\* changes.
C20_OutOfBoundsIsHarmless ==
    [][\A p \in StoreCoords :
          OutsideGrid(p) =>
            /\ CallGetTile(p) => (returned'.value = "null" /\ tiles' = tiles)
            /\ (\E tile \in StoreTiles : CallSetTile(p, tile)) =>
                    (returned'.value = "false" /\ tiles' = tiles)
            /\ (\E type \in StoreTypes : CallSetTileType(p, type)) =>
                    (returned'.value = "false" /\ tiles' = tiles)]_vars

\* setTileType has just returned false on a grid that holds a zone tile with
\* its building and a road
C20_Witness ==
    /\ returned = [method |-> "setTileType", value |-> "false"]
    /\ \E p, q \in Pos :
        /\ canHaveBuildings(tiles[p].type) /\ tiles[p].building # 0
        /\ tiles[q].type = "ROAD"
(***************************************************************************)
(* Snapshots and loading                                                   *)
(***************************************************************************)
\* what the tiles ts hold: the type of each tile and the level and timer of
\* its building, level -1 standing for a tile without a building
ValuesOf(ts, hp) ==
    [p \in DOMAIN ts |->
        IF ts[p].building = 0
        THEN [type |-> ts[p].type, level |-> -1, unpoweredTime |-> DZero]
        ELSE [type |-> ts[p].type, level |-> hp[ts[p].building].level,
              unpoweredTime |-> hp[ts[p].building].unpoweredTime]]

\* a step of the running world: a tick or a stroke of the brush
WorldStep ==
    \/ LoopTick
    \/ \E p \in PointerTiles : PointerDown(p) \/ PointerMove(p)
    \/ PointerUp

\* C21: a tick or a paint after serialize() leaves the type, building level
\* and unpowered timer of every tile of the snapshot as they were, and a write
\* to the data after loadFromData(data) leaves every tile of the grid as it was.
C21_SnapshotIsolated ==
    [][/\ (snapshot # <<>> /\ WorldStep) =>
            ValuesOf(snapshot', heap') = ValuesOf(snapshot, heap)
       /\ (returned.method = "loadFromData"
             /\ \E p \in Pos, level \in 0..MAX_BUILDING_LEVEL : EditData(p, level)) =>
            ValuesOf(tiles', heap') = ValuesOf(tiles, heap)]_vars
\* what the saved grid snap holds, tile by tile
SavedValues(snap) ==
    [p \in DOMAIN snap |->
        [type |-> snap[p].type, level |-> snap[p].level, unpoweredTime |-> snap[p].time]]

\* C22: when create() has restored a world from a save, the grid has the
\* columns, rows and tiles of the saved snapshot, the seed of the world is the
\* snapshot's seed, and the generator starts from that seed.
C22_RestoredFromSnapshot ==
    (returned = [method |-> "create", value |-> "loaded"] /\ tickCount = 0) =>
        /\ DOMAIN tiles = DOMAIN storage.grid
        /\ ValuesOf(tiles, heap) = SavedValues(storage.grid)
        /\ seed = storage.seed
        /\ rngCurrent = storage.seed
(***************************************************************************)
(* Economy                                                                 *)
(***************************************************************************)
\* the tick runs over a powered zone tile of level 1 or 2: an upgrade is decided
UpgradeDecided ==
    /\ tickCount' # tickCount
    /\ \E p \in Pos :
        /\ canHaveBuildings(tiles[p].type)
        /\ isPowered(gridState, p)
        /\ LevelOf(tiles, heap, p) \in {1, 2}

\* C23: in every tick that decides an upgrade, the chance Growth draws against
\* is the one for the happiness Economy holds in that tick: base chance times
\* 2 if that happiness is at least 0.7, base chance times 1 otherwise.
C23_UpgradeUsesCurrentHappiness ==
    [][UpgradeDecided =>
          upgradeChance(growthStats.happiness) = upgradeChance(cityStats'.happiness)]_vars
\* spare capacity, capacity - demand, is at least 10% of a capacity above 0
SpareCapacity(gs) == gs.capacity > 0 /\ (gs.capacity - gs.demand) * 10 >= gs.capacity

\* C24: after every tick, the happiness Economy holds is 0.7 if the spare power
\* capacity is at least 10% of the capacity and 0.5 otherwise, and it lies
\* between 0 and 1.
C24_HappinessFromSpareCapacity ==
    [][tickCount' # tickCount =>
          /\ cityStats'.happiness =
                IF SpareCapacity(gridState) THEN DQuot(7, 10) ELSE DQuot(5, 10)
          /\ DGeq(cityStats'.happiness, DZero)
          /\ DGeq(DInt(1), cityStats'.happiness)]_vars
\* the table of the claim: what a zone tile of a type and level contributes
TableEntry(type, level) ==
    [population |-> IF type = "RES" THEN <<0, 10, 25, 50>>[level + 1] ELSE 0,
     shoppers |-> IF type = "COM" THEN <<0, 15, 35, 70>>[level + 1] ELSE 0,
     jobs |-> IF type = "IND" THEN <<0, 20, 45, 90>>[level + 1] ELSE 0]

\* what the tile at p contributes: nothing unless it is a zone tile with a building
TableAt(ts, hp, p) ==
    IF ts[p].type \in {"RES", "COM", "IND"} /\ ts[p].building # 0
    THEN TableEntry(ts[p].type, hp[ts[p].building].level)
    ELSE [population |-> 0, shoppers |-> 0, jobs |-> 0]

RECURSIVE TableSum(_, _, _, _)
\* the sum of the field over the tiles in todo
TableSum(ts, hp, field, todo) ==
    IF todo = {} THEN 0
    ELSE LET p == CHOOSE q \in todo : TRUE
         IN  TableAt(ts, hp, p)[field] + TableSum(ts, hp, field, todo \ {p})

\* the statistics stats are the sums of the table over the grid
StatsAreSums(stats, ts, hp) ==
    /\ stats.population = TableSum(ts, hp, "population", DOMAIN ts)
    /\ stats.jobs = TableSum(ts, hp, "jobs", DOMAIN ts)
    /\ stats.shoppers = TableSum(ts, hp, "shoppers", DOMAIN ts)

\* C25: after every tick, population, jobs and shoppers are the sums of the
\* table entries over the zone tiles that have a building, as the grid stands
\* after the tick.
C25_StatsAreSums ==
    [][tickCount' # tickCount => StatsAreSums(cityStats', tiles', heap')]_vars
\* the tick of this step collected taxes
TaxesCollected ==
    /\ tickCount' # tickCount
    /\ \E i \in 1..Len(tickLog'.events) : tickLog'.events[i].name = "economy:taxes-collected"

\* C26: a tax collection on a numeric balance adds exactly income - upkeep to
\* it, with income = 2 x population + shoppers + jobs of the statistics of that
\* tick and upkeep = ROAD tiles + 5 x POWER_PLANT tiles of the grid.
C26_TaxDelta ==
    [][(TaxesCollected /\ cityStats.balance.kind = "number") =>
          /\ cityStats'.balance.kind = "number"
          /\ cityStats'.balance.value - cityStats.balance.value =
                (2 * cityStats'.population + cityStats'.shoppers + cityStats'.jobs)
                - (Cardinality({p \in Pos : tiles[p].type = "ROAD"})
                   + 5 * Cardinality({p \in Pos : tiles[p].type = "POWER_PLANT"}))]_vars

\* the second collection has just run on the grid with a house of level 1 and
\* a road: the balance has grown by 19 twice
C26_Witness ==
    /\ tickLog.tick = 60
    /\ \E i \in 1..Len(tickLog.events) : tickLog.events[i].name = "economy:taxes-collected"
    /\ cityStats.population = 10
    /\ countTiles(tiles, "ROAD") = 1
    /\ cityStats.balance = Num(STARTING_BALANCE + 19 + 19)

\* C27: a tick collects taxes if and only if its number is a multiple of 30,
\* whatever frames and pauses came before it.
C27_TaxEveryThirtyTicks ==
    [][tickCount' # tickCount => (TaxesCollected <=> tickCount' % 30 = 0)]_vars

\* the 60th tick has collected taxes in a run that was paused for a while
C27_Witness ==
    /\ tickLog.tick = 60
    /\ \E i \in 1..Len(tickLog.events) : tickLog.events[i].name = "economy:taxes-collected"
    /\ runTime < now
\* C28: after every tax collection the balance is a number and not NaN; a
\* balance that was not a number before the collection has been reset to 0.
C28_BalanceIsNumber ==
    [][TaxesCollected =>
          /\ cityStats'.balance.kind = "number"
          /\ cityStats.balance.kind \in {"NaN", "undefined", "string"} =>
                cityStats'.balance = Num(0)]_vars
\* the item is a malformed save: text that JSON.parse rejects, or a JSON value
\* without worldState, cityStats or tiles
Malformed(item) ==
    \/ item.kind \in {"unparsable", "null"}
    \/ item.kind = "object" /\ item.lacks \cap {"worldState", "cityStats", "tiles"} # {}

TILE_WIDTH == 64
TILE_HEIGHT == 32

CoordWidth == 6
CoordHeight == 6

CoordPos == (0..(CoordWidth - 1)) \X (0..(CoordHeight - 1))

\* the top corner of the tile's diamond instead of its centre
tileToWorldTop(tileX, tileY) ==
    [x |-> (tileX - tileY) * (TILE_WIDTH \div 2),
     y |-> (tileX + tileY) * (TILE_HEIGHT \div 2) - TILE_HEIGHT \div 2]

tileToWorld(tileX, tileY) ==
    [x |-> (tileX - tileY) * (TILE_WIDTH \div 2),
     y |-> (tileX + tileY) * (TILE_HEIGHT \div 2)]

\* Math.floor(n / d) for whole n and d > 0
Floor(n, d) == IF n >= 0 THEN n \div d ELSE -((-n + d - 1) \div d)

\* worldX / 32 and worldY / 16 over the common denominator 32 * 16
worldToTile(worldX, worldY) ==
    [x |-> Floor(worldX * (TILE_HEIGHT \div 2) + worldY * (TILE_WIDTH \div 2),
                 2 * (TILE_WIDTH \div 2) * (TILE_HEIGHT \div 2)),
     y |-> Floor(worldY * (TILE_WIDTH \div 2) - worldX * (TILE_HEIGHT \div 2),
                 2 * (TILE_WIDTH \div 2) * (TILE_HEIGHT \div 2))]

\* the tile coordinates the renderers pass: the tiles, and the ends of the
\* grid lines, which lie one past the last tile
LinePos == (0..CoordWidth) \X (0..CoordHeight)

\* world points under the pointer
PointerCoords == {-33, -32, -1, 0, 15, 16, 17, 31, 32, 47}

PointerPoints == PointerCoords \X PointerCoords

WideWorld == [p \in CoordPos |-> EmptyTile]

InitCoord ==
    /\ tiles = WideWorld
    /\ heap = [r \in 1..MaxObj |-> NewBuilding]
    /\ rngCurrent \in {LoadClock}
    /\ seed = rngCurrent
    /\ storage = NoItem
    /\ retired = NoScene
    /\ gridState = PowerSystemNew(WideWorld)
    /\ cityStats = FreshStats
    /\ lastTaxTime = DZero
    /\ growthStats = FreshStats
    /\ InitScheduler
    /\ InitEditor
    /\ tickLog = NoTick
    /\ replica = NoReplica

\* a call of worldState.tileToWorld(p[1], p[2])
CallTileToWorld(p) ==
    /\ returned' = [method |-> "tileToWorld", arg |-> p,
                    value |-> tileToWorld(p[1], p[2])]
    /\ UNCHANGED <<worldVars, schedVars, editVars, tickLog, replica,
                   strokeStart, snapshot, bootVars>>

\* a call of worldState.worldToTile(w.x, w.y)
CallWorldToTile(w) ==
    /\ returned' = [method |-> "worldToTile", arg |-> w,
                    value |-> worldToTile(w.x, w.y)]
    /\ UNCHANGED <<worldVars, schedVars, editVars, tickLog, replica,
                   strokeStart, snapshot, bootVars>>

\* the world point tileToWorld returned last
Converted == IF returned.method = "tileToWorld" THEN {returned.value} ELSE {}

NextCoord ==
    \/ \E p \in LinePos : CallTileToWorld(p)
    \/ \E w \in Converted : CallWorldToTile(w)
    \/ \E q \in PointerPoints : CallWorldToTile([x |-> q[1], y |-> q[2]])

SpecCoord == InitCoord /\ [][NextCoord]_vars

\* C30: worldToTile applied to the world point that tileToWorld returned for
\* a tile inside the grid returns that tile.
C30_RoundTrip ==
    [][(/\ returned.method = "tileToWorld"
        /\ returned.arg \in CoordPos
        /\ CallWorldToTile(returned.value))
          => returned'.value = [x |-> returned.arg[1], y |-> returned.arg[2]]]_vars

\* worldToTile has returned tile (3, 5) for the world point (-64, 128), the
\* centre tileToWorld gives for that tile
C30_Witness ==
    /\ returned.method = "worldToTile"
    /\ returned.arg = [x |-> -64, y |-> 128]
    /\ returned.arg = tileToWorld(3, 5)
    /\ returned.value = [x |-> 3, y |-> 5]
(***************************************************************************)
(* Commands and growth                                                     *)
(***************************************************************************)
\* what a tile object holds, read through its building reference
TileValue(tile, hp) ==
    IF tile.building = 0
    THEN [type |-> tile.type, level |-> -1, unpoweredTime |-> DZero]
    ELSE [type |-> tile.type, level |-> hp[tile.building].level,
          unpoweredTime |-> hp[tile.building].unpoweredTime]

\* what the oldTile and newTile of the commands of a batch hold
BatchValues(batch, hp) ==
    [i \in 1..Len(batch) |->
        [oldTile |-> TileValue(batch[i].oldTile, hp),
         newTile |-> TileValue(batch[i].newTile, hp)]]

HistoryValues(hist, hp) == [i \in 1..Len(hist) |-> BatchValues(hist[i], hp)]

\* C31: a tick leaves the before and after tiles of every PaintTileCommand, in
\* the history and in the stroke in progress, as they were: what growth does
\* to the building of a stored tile does not show through the tile that was
\* handed to setTile.
C31_CommandTilesKept ==
    [][LoopTick =>
          /\ HistoryValues(history', heap') = HistoryValues(history, heap)
          /\ BatchValues(currentBatch', heap') = BatchValues(currentBatch, heap)]_vars
(***************************************************************************)
(* Power demand                                                            *)
(***************************************************************************)
\* the tiles of a power-consuming type within the radius of some plant
ConsumersInRange(ts) ==
    {p \in DOMAIN ts : ts[p].type \in POWER_CONSUMING_TILES /\ PlantInRange(ts, p)}

\* C32: after recalculate(), demand is the number of tiles of a consuming type
\* that are powered, which is the size of the powered set; a consuming tile
\* out of range of every plant is not counted.
C32_DemandCountsPowered ==
    returned.method = "recalculate" =>
        /\ gridState.demand =
             Cardinality({p \in DOMAIN tiles : /\ tiles[p].type \in POWER_CONSUMING_TILES
                                                /\ isPowered(gridState, p)})
        /\ gridState.demand = Cardinality(gridState.poweredTiles)
        /\ gridState.demand = Cardinality(ConsumersInRange(tiles))

\* recalculate() has counted one powered tile on a grid with two plants that
\* also holds a consuming tile out of range of both
C32_Witness ==
    /\ returned.method = "recalculate"
    /\ gridState.demand = 1
    /\ Len(gridState.plants) = 2
    /\ \E p \in DOMAIN tiles :
        tiles[p].type \in POWER_CONSUMING_TILES /\ ~PlantInRange(tiles, p)
(***************************************************************************)
(* The batch notification of growth.  Resumed games in which a tick        *)
(* abandons two buildings at once, upgrades a factory, or spawns a house;  *)
(* frames of several lengths, no editing.                                  *)
(***************************************************************************)
NotifyGrids ==
    {SavedGrid(Saved("RES", 3, Unpowered299), Saved("COM", 1, Unpowered299), Grass),
     SavedGrid(Saved("RES", 2, Unpowered298), Saved("COM", 1, Unpowered299), Grass),
     SavedGrid(Saved("IND", 2, DZero), Saved("POWER_PLANT", -1, DZero), Grass),
     SavedGrid(Saved("RES", 0, DZero), Saved("POWER_PLANT", -1, DZero), Grass)}

NotifyTime == 800

InitNotify == InitLoaded(NotifyGrids, DetSeeds) /\ replica = NoReplica

NextNotify ==
    \/ \E dt \in LongDeltas : UpdateWithin(dt, NotifyTime)
    \/ LoopTick
    \/ LoopExit

SpecNotify == InitNotify /\ [][NextNotify]_vars

\* the 'buildings:changed' notifications of a tick
ChangedNotes(log) == SelectSeq(log.events, LAMBDA e : e.name = "buildings:changed")

\* the tiles whose level differs after the step
LevelChanged == {p \in Pos : LevelOf(tiles', heap', p) # LevelOf(tiles, heap, p)}

\* the notification lists exactly the tiles of S, each once
ListsExactly(note, S) ==
    /\ {note.tiles[i] : i \in 1..Len(note.tiles)} = S
    /\ Len(note.tiles) = Cardinality(S)

\* C33: a tick emits at most one 'buildings:changed'; it emits one if and only
\* if the level of some tile changed in the tick, and the notification lists
\* exactly the tiles whose level changed, each once.
C33_OneBatchNotification ==
    [][LoopTick =>
          /\ Len(ChangedNotes(tickLog')) <= 1
          /\ Len(ChangedNotes(tickLog')) = 1 <=> LevelChanged # {}
          /\ Len(ChangedNotes(tickLog')) = 1 =>
                ListsExactly(ChangedNotes(tickLog')[1], LevelChanged)]_vars

\* the last tick abandoned a level on both tiles and reported them in one
\* notification
C33_Witness ==
    /\ Len(ChangedNotes(tickLog)) = 1
    /\ Len(ChangedNotes(tickLog)[1].tiles) = 2
    /\ Len(EventsAt(tickLog, <<0, 0>>)) = 1
    /\ Len(EventsAt(tickLog, <<1, 0>>)) = 1
(***************************************************************************)
(* The grid as a replay of the history                                     *)
(***************************************************************************)
TypesOf(ts) == [p \in DOMAIN ts |-> ts[p].type]

\* the grid ts with the first k entries of hist executed in order
RECURSIVE Replay(_, _, _)
Replay(ts, hist, k) ==
    IF k = 0 THEN ts ELSE BatchExecute(Replay(ts, hist, k - 1), hist[k], 1)

\* the grid ts after undo() has been called until canUndo() is false
RECURSIVE UndoAll(_, _, _)
UndoAll(ts, hist, index) ==
    IF ~canUndoAt(index) THEN ts
    ELSE UndoAll(QueueUndo(ts, hist, index).tiles, hist, index - 1)

\* the tile types are those of a new game with the history replayed up to
\* the cursor
GridIsReplay ==
    ~isPainting => TypesOf(tiles) = TypesOf(Replay(FreshTiles, history, currentIndex + 1))

\* C34: between strokes, the tile types of the grid are those of the initial
\* grid with the history applied up to the cursor, and undoing every entry
\* gives the initial tile types back.
C34_GridIsReplayOfHistory ==
    /\ GridIsReplay
    /\ ~isPainting =>
          TypesOf(UndoAll(tiles, history, currentIndex)) = TypesOf(FreshTiles)
(***************************************************************************)
(* Growth under undo, redo and the end of a stroke                         *)
(***************************************************************************)
\* the tile at p is a zone tile that the command cmd painted and that has
\* grown a building since
GrownSince(cmd, p) ==
    /\ cmd.position = p
    /\ cmd.newTile.type = tiles[p].type
    /\ canHaveBuildings(tiles[p].type)
    /\ LevelOf(tiles, heap, p) >= 1

\* C35: between strokes, when the stroke under the cursor painted a zone tile
\* that has grown since, undo() directly followed by redo() leaves that tile
\* with the type, level and unpowered timer it had before the undo.
C35_UndoRedoKeepsGrowth ==
    (canUndo /\ ~isPainting) =>
        \A p \in Pos :
            (\E i \in 1..Len(history[currentIndex + 1]) :
                  GrownSince(history[currentIndex + 1][i], p)) =>
                TileValue(UndoRedo(QueueUndo(tiles, history, currentIndex)).tiles[p], heap)
                    = TileValue(tiles[p], heap)

\* C36: the release that ends a stroke leaves every tile the stroke painted
\* with the type, building level and unpowered timer it had just before the
\* release, also when ticks fired during the stroke.
C36_StopPaintKeepsGrid ==
    [][PointerUp =>
          \A p \in paintedTiles :
              TileValue(tiles'[p], heap') = TileValue(tiles[p], heap)]_vars
(***************************************************************************)
(* Painting a zone over a tile of another type: resumed games with a       *)
(* factory next to a plant and with a house without power, the COM brush   *)
(* next to the ROAD brush the palette starts on.                           *)
(***************************************************************************)
RezoneGrids ==
    {SavedGrid(Saved("IND", 2, DZero), Saved("POWER_PLANT", -1, DZero), Grass),
     SavedGrid(Saved("RES", 3, Unpowered298), Grass, Grass)}

RezoneBrushes == {"COM"}

InitRezone == InitLoaded(RezoneGrids, Seeds) /\ replica = NoReplica

NextRezone ==
    \/ \E dt \in FrameDeltas : Update(dt)
    \/ LoopTick
    \/ LoopExit
    \/ \E p \in PointerTiles : PointerDown(p)
    \/ \E p \in PointerTiles : PointerMove(p)
    \/ PointerUp
    \/ \E b \in RezoneBrushes : SelectBrush(b)

SpecRezone == InitRezone /\ [][NextRezone]_vars

\* the unpowered timer of the tile at p, 0 for a tile without a building
TimerOf(ts, hp, p) == IF ts[p].building = 0 THEN DZero ELSE hp[ts[p].building].unpoweredTime

\* C37: when a paint changes the type of a tile to a zone type, the tile is
\* a vacant lot right after it: level 0 and unpowered timer 0, whatever the
\* tile was before.
C37_PaintedZoneIsVacant ==
    [][(\E q \in PointerTiles : PointerDown(q) \/ PointerMove(q)) =>
          \A p \in Pos :
              (tiles'[p].type # tiles[p].type /\ canHaveBuildings(tiles'[p].type)) =>
                  /\ LevelOf(tiles', heap', p) = 0
                  /\ TimerOf(tiles', heap', p) = DZero]_vars
(***************************************************************************)
(* Listeners after a restart                                               *)
(***************************************************************************)
\* how often the engine ran in the tick the log is about
RunsOf(log, engine) == Len(SelectSeq(log.engines, LAMBDA e : e = engine))

\* the generator after the listeners of the running scene alone
RngOfSceneAlone ==
    EmitTick(World, 1, tickCount + 1, gridState, growthStats.happiness,
             CommandRefs(history, currentBatch)).rng

\* C38: in every tick after a scene was shut down and created again, the
\* listeners of the destroyed systems do not run: the world of the old scene
\* stays as it is, growth and economy run once each, and the generator
\* advances by the draws of the new world only.
C38_DestroyedDoNotReact ==
    [][(LoopTick /\ retired # NoScene) =>
          /\ retired' = retired
          /\ RunsOf(tickLog', "Growth") = 1
          /\ RunsOf(tickLog', "Economy") = 1
          /\ rngCurrent' = RngOfSceneAlone]_vars
(***************************************************************************)
(* The power grid of a dense world.  A world of DenseWidth x DenseHeight   *)
(* tiles holds the whole radius of a plant at its centre; every tile that  *)
(* is neither a plant nor the gap is of one type.  The PowerSystem is      *)
(* constructed up to the call of recalculate, which is then called.        *)
(***************************************************************************)
DenseWidth == 17
DenseHeight == 17

DensePos == (0..(DenseWidth - 1)) \X (0..(DenseHeight - 1))

DenseCentre == <<8, 8>>

\* where the first plant of a dense world may stand
DenseSites == {DenseCentre, <<0, 0>>, <<8, 0>>, <<7, 8>>}

\* where its second plant may stand: next to the centre, or in the far corner
DenseSeconds == {<<9, 8>>, <<DenseWidth - 1, DenseHeight - 1>>}

DenseGrid(plants, fill, gap) ==
    [p \in DensePos |->
        IF p \in plants THEN [type |-> "POWER_PLANT", building |-> 0]
        ELSE IF p = gap THEN EmptyTile
        ELSE [type |-> fill, building |-> 0]]

DenseGrids ==
    {DenseGrid(first \cup second, fill, gap) :
        first \in {{}} \cup {{a} : a \in DenseSites},
        second \in {{}} \cup {{b} : b \in DenseSeconds},
        fill \in TileTypes, gap \in {<<0, 0>>, <<8, 7>>}}

InitDense ==
    /\ tiles \in DenseGrids
    /\ heap = [r \in 1..MaxObj |-> NewBuilding]
    /\ rngCurrent \in {LoadClock}
    /\ seed = rngCurrent
    /\ storage = NoItem
    /\ retired = NoScene
    /\ gridState = NoPower
    /\ cityStats = FreshStats
    /\ lastTaxTime = DZero
    /\ growthStats = FreshStats
    /\ InitScheduler
    /\ InitEditor
    /\ tickLog = NoTick
    /\ replica = NoReplica

NextDense == Recalculate

SpecDense == InitDense /\ [][NextDense]_vars

\* C39: after recalculate() on a grid with at least one plant, demand is below
\* capacity and the spare capacity is at least 10% of the capacity, so that
\* the happiness calculated from that grid state is 0.7 whenever a consuming
\* tile is powered.
C39_NoPowerShortage ==
    (returned.method = "recalculate" /\ Len(gridState.plants) >= 1) =>
        /\ gridState.demand < gridState.capacity
        /\ (gridState.capacity - gridState.demand) * 10 >= gridState.capacity
        /\ gridState.poweredTiles # {} => calculateHappiness(gridState) = HappyThreshold

\* recalculate() has counted the 144 consuming tiles in the radius of the one
\* plant of the grid, more tiles consume out of its range, and the happiness
\* calculated from the grid state is 0.7
C39_Witness ==
    /\ returned.method = "recalculate"
    /\ Len(gridState.plants) = 1
    /\ gridState.demand = 144
    /\ \E p \in DOMAIN tiles :
        tiles[p].type \in POWER_CONSUMING_TILES /\ ~PlantInRange(tiles, p)
    /\ calculateHappiness(gridState) = HappyThreshold
(***************************************************************************)
(* The decay of unpowered buildings.  The saved game of LongGrid, a        *)
(* level-3 house and a level-1 shop without a plant, runs until the house  *)
(* is a vacant lot and for some ticks more.                                *)
(***************************************************************************)
DecayTime == 91000

NextDecay ==
    \/ \E dt \in LongDeltas : UpdateWithin(dt, DecayTime)
    \/ LoopTick
    \/ LoopExit

SpecDecay == InitLong /\ [][NextDecay]_vars

\* the level of a building that started at level L, after n unpowered ticks
DecayedLevel(L, n) == IF n \div AbandonTicks >= L THEN 0 ELSE L - n \div AbandonTicks

\* C40: a zone tile that starts at level L >= 1 and stays unpowered has lost
\* one level for every 300 ticks (30 s of simulated time) until it is at
\* level 0 after 300 x L ticks, and stays at level 0 from then on; the ticks
\* 300, 600, ... up to 300 x L emit one 'building:abandoned' for it and no
\* other tick emits an abandonment, a spawn or an upgrade for it.
C40_UnpoweredDecay ==
    \A p \in Pos :
        LongGrid[p].level >= 1 =>
            LET L == LongGrid[p].level
                lost == tickCount \div AbandonTicks
            IN  /\ ~isPowered(gridState, p)
                /\ LevelOf(tiles, heap, p) = DecayedLevel(L, tickCount)
                /\ EventsAt(tickLog, p) =
                      IF tickCount > 0 /\ tickCount % AbandonTicks = 0 /\ lost <= L
                      THEN <<[name |-> "building:abandoned", pos |-> p, level |-> L - lost]>>
                      ELSE <<>>

\* the house that started at level 3 is a vacant lot after more than 900
\* ticks, and the shop that started at level 1 has been one for 600 ticks
C40_Witness ==
    /\ tickCount > 3 * AbandonTicks
    /\ tickLog.tick = tickCount
    /\ LongGrid[<<0, 0>>].level = 3
    /\ LevelOf(tiles, heap, <<0, 0>>) = 0
    /\ LevelOf(tiles, heap, <<1, 0>>) = 0
====
